---- MODULE Spec2Model ----
(***************************************************************************)
(* Model of the investor follow-up bot: the monday.com client with its     *)
(* retry policy and cursor pagination, the reminder store and its file,    *)
(* the 60-second reminder checker, the message de-duplication map and the  *)
(* schedule / assign handlers.                                             *)
(*                                                                         *)
(* Every action is one run of JavaScript between two suspension points     *)
(* (await): the event loop runs such a segment to completion before any    *)
(* other callback starts.                                                  *)
(***************************************************************************)
EXTENDS Integers, Sequences, FiniteSets, TLC

VARIABLES
  \* ---- monday/client.js, monday/queries.js : one fetchAllBoardItems run
  board,        \* the pages of the remote board, a sequence of item sequences
  fetchPc,      \* "idle" | "calling" | "returned" | "thrown"
  cursor,       \* fetchAllBoardItems' cursor: 0 is undefined, p the cursor of page p
  allItems,     \* fetchAllBoardItems' accumulator
  fetchCalls,   \* number of mondayApi calls fetchAllBoardItems has made
  apiPc,        \* "idle" | "attempt" | "sleep" | "returned" | "thrown"
  retryCount,   \* attempt's parameter
  apiLog,       \* the responses of the HTTP attempts of the current mondayApi call
  apiWaited,    \* milliseconds the current mondayApi call has slept before a retry
  apiData,      \* the value mondayApi returned (json.data)
  gaResult,     \* [done, list]: what getActiveInvestors handed to its caller
  \* ---- reminders/store.js
  reminders,    \* the in-memory list
  file,         \* reminders.json: [exists, text], text the JSON array last written
  lastSave,     \* outcome of the last saveReminders: "none" | "ok" | "failed"
  diskOk,       \* whether writeFileSync on reminders.json succeeds at present
  nextId,       \* number of reminders created so far (ids are 1, 2, ...)
  \* ---- reminders/checker.js
  now,          \* wall clock, in checker intervals (CHECK_INTERVAL_MS)
  channelOk,    \* slackClient && channelId, as handed to startReminderChecker
  ticks,        \* the runs of the setInterval callback, by number
  running,      \* the tick whose synchronous code is executing, or 0
  dueCount,     \* per reminder id: number of ticks whose due-set held it
  sends,        \* per reminder id: whether a send (email, Slack) was attempted
  removedAs,    \* per reminder id: "none" | "unresolvable" | "handled"
  \* ---- slack/commands.js : the message listener and its dedup map
  clock,        \* Date.now(), in milliseconds
  processedMessages,  \* the Map: per message ts, the time recorded, or -1 (no entry)
  events,       \* the message events delivered, by number
  \* ---- slack/commands.js : handleScheduleFollowUp, handleAssignFollowUp
  hPc,          \* position of the handler invocation in flight
  hKind,        \* "schedule" | "assign"
  hInvestor,    \* the investor resolveInvestor returned
  hDate,        \* parsedDate (0: not parsed)
  hAssignee,    \* assigneeMapping
  hResult,      \* what updateNextFollowUp returned to this invocation
  hReply,       \* the reply this invocation sent with say(), or "none"
  hRuns,        \* invocations started so far
  hStartId,     \* nextId when this invocation started
  hNote,        \* assignmentNote of the assign handler
  hAssignTried, \* updateAssignedTo was called in this invocation
  followUpOnBoard, \* per item id: the next-follow-up date the board holds
  \* ---- slack/commands.js : the listener's router; ai/intentParser.js
  rPc,          \* position of the listener run past the filters
  rRaw,         \* what the classifier call produced: [kind, fence, json]
  rIntent,      \* what parseIntent returned
  rHandler,     \* the handler the router invoked, or "none"
  rReplies,     \* the say() calls of the router itself, in order
  rRuns,        \* messages routed so far
  rSnap,        \* hRuns, nextId and followUpOnBoard when the message arrived
  rText,        \* the cleaned text of the message, a sequence of words
  \* ---- slack/commands.js : resolveInvestor; utils/nameMatch.js
  vPc,          \* "idle" | "fetch" (await getActiveInvestors) | "done"
  vSearch,      \* the searchName of the call in flight, a sequence of words
  vCalls,       \* the calls that returned: name, candidates, scores, result
  fuseMemo,     \* per cleaned name: the scores fuse.search gave the candidates
  \* ---- slack/commands.js : handleLogTouchpoint
  tPc,          \* "idle" | "contact" | "next" | "flag" | "log" | "done"
  tInvestor,    \* the record resolveInvestor returned
  tTodayStr,    \* todayStr, a day number
  tNextDateStr, \* nextDateStr, a day number, or NoDate for null
  tReply,       \* what the handler said last
  tRuns,        \* handleLogTouchpoint calls so far
  day,          \* the local date, a day number
  nameOnBoard,  \* the item's name on the board
  lastContactOnBoard,   \* the item's last-contact date on the board
  nextFollowUpOnBoard,  \* the item's next-follow-up date on the board
  \* ---- slack/notifications.js : notifyAssignment
  nPc,          \* "idle" | "open" | "dm" | "mention" | "done"
  nChannelId,   \* opts.channelId, or Null
  nLog,         \* the Slack calls this invocation has made, in order
  nDmFailed,    \* the DM's try block ended without the DM sent
  nResults,     \* what the invocations returned, in order
  \* ---- utils/userMapping.js : findMondayUser
  pUsers,       \* the users getMondayUsers resolves with
  pName,        \* the name of the last call, a sequence of characters
  pEmail,       \* the email of the last call, <<>> for null
  pMatch,       \* the last call: the users it saw, the step that matched, the user
  \* ---- utils/userMapping.js : resolveSlackUserToMonday
  cClock,       \* Date.now(), in milliseconds
  cache,        \* per Slack user id: the cached mapping and its cachedAt
  cPc,          \* "idle" | "info" (await users.info and findMondayUser) | "done"
  cUser,        \* the slackUserId of the lookup in flight
  cLookups,     \* the lookups that returned: user, start, end, remote, failed
  \* ---- slack/commands.js : handleListOverdue
  oPc,          \* "idle" | "fetch" (await getActiveInvestors) | "done"
  oNow,         \* new Date() of the handler, in hours
  oInvestors,   \* what getActiveInvestors resolved with: the nextFollowUp values
  oReply,       \* what the handler said
  \* ---- utils/dateParser.js : parseNaturalDate
  dHost,        \* the time zone of the host process
  dInput,       \* the last expression: its calendar day, season and stated hour
  dParsed,      \* what the last call returned: date (hours, UTC) and hasTime
  \* ---- slack/commands.js, ai/intentParser.js : classifying a message
  kPc,          \* "idle" | "parsing" (await parseIntent) | "done"
  kText,        \* the text being classified
  kLog,         \* the classifications made: text, action tag, slots
  \* ---- scheduler/cron.js : the 15-minute poller; scheduler/goingCold.js
  gPc,          \* "idle" | "poll next" | "poll flag" | "cold flag" | "cold next" | "cold alert"
  gRecord,      \* the investor as the running job fetched it
  gToday,       \* today of the running going-cold check
  gStatus,      \* the record's status on the board
  gLastContact, \* the record's last-contact date on the board, a day number
  gNext,        \* the record's next-follow-up date on the board
  gFlagged,     \* the record's name carries the going-cold marker
  lastContactCache,  \* lastContactCache[investor.id], NoDate when unset
  gDay          \* the date, a day number

boardVars == <<board, fetchPc, cursor, allItems, fetchCalls, apiPc, retryCount,
               apiLog, apiWaited, apiData, gaResult>>

storeVars == <<reminders, file, lastSave, diskOk, nextId>>

checkerVars == <<now, channelOk, ticks, running, dueCount, sends, removedAs>>

dedupVars == <<clock, processedMessages, events>>

handlerVars == <<hPc, hKind, hInvestor, hDate, hAssignee, hResult, hReply,
                 hRuns, hStartId, hNote, hAssignTried, followUpOnBoard>>

routerVars == <<rPc, rRaw, rIntent, rHandler, rReplies, rRuns, rSnap, rText>>

resolveVars == <<vPc, vSearch, vCalls, fuseMemo>>

\* The parts added after the first five, for the frames below.
touchVars ==
  <<tPc, tInvestor, tTodayStr, tNextDateStr, tReply, tRuns, day, nameOnBoard,
    lastContactOnBoard, nextFollowUpOnBoard>>

notifyVars == <<nPc, nChannelId, nLog, nDmFailed, nResults>>

personVars ==
  <<pUsers, pName, pEmail, pMatch>>

cacheVars ==
  <<cClock, cache, cPc, cUser, cLookups>>

overdueVars ==
  <<oPc, oNow, oInvestors, oReply>>

dateVars ==
  <<dHost, dInput, dParsed>>

classifyVars ==
  <<kPc, kText, kLog>>

cronVars ==
  <<gPc, gRecord, gToday, gStatus, gLastContact, gNext, gFlagged,
    lastContactCache, gDay>>

laterVars == <<resolveVars, touchVars, notifyVars, personVars, cacheVars,
  overdueVars, dateVars, classifyVars, cronVars>>

\* What each part of the program leaves alone.
OutsideBoard == <<storeVars, checkerVars, dedupVars, handlerVars, routerVars, laterVars>>
OutsideStore == <<boardVars, checkerVars, dedupVars, handlerVars, routerVars, laterVars>>
OutsideChecker == <<boardVars, dedupVars, handlerVars, routerVars, laterVars>>
OutsideDedup == <<boardVars, storeVars, checkerVars, handlerVars, routerVars, laterVars>>
OutsideHandler == <<boardVars, checkerVars, dedupVars, routerVars, laterVars>>
OutsideRouter == <<boardVars, checkerVars, dedupVars, laterVars>>
firstVars ==
  <<boardVars, storeVars, checkerVars, dedupVars, handlerVars, routerVars>>
OutsideResolve == <<firstVars, touchVars, notifyVars, personVars, cacheVars,
  overdueVars, dateVars, classifyVars, cronVars>>
OutsideTouch == <<firstVars, resolveVars, notifyVars, personVars, cacheVars,
  overdueVars, dateVars, classifyVars, cronVars>>
OutsideNotify == <<firstVars, resolveVars, touchVars, personVars, cacheVars,
  overdueVars, dateVars, classifyVars, cronVars>>
OutsidePerson == <<firstVars, resolveVars, touchVars, notifyVars, cacheVars,
  overdueVars, dateVars, classifyVars, cronVars>>
OutsideCache == <<firstVars, resolveVars, touchVars, notifyVars, personVars,
  overdueVars, dateVars, classifyVars, cronVars>>
OutsideOverdue == <<firstVars, resolveVars, touchVars, notifyVars,
  personVars, cacheVars, dateVars, classifyVars, cronVars>>
OutsideDate == <<firstVars, resolveVars, touchVars, notifyVars, personVars,
  cacheVars, overdueVars, classifyVars, cronVars>>
OutsideClassify == <<firstVars, resolveVars, touchVars, notifyVars,
  personVars, cacheVars, overdueVars, dateVars, cronVars>>
OutsideCron == <<firstVars, resolveVars, touchVars, notifyVars, personVars,
  cacheVars, overdueVars, dateVars, classifyVars>>

vars ==
  <<boardVars, storeVars, checkerVars, dedupVars, handlerVars, routerVars,
    laterVars>>

-----------------------------------------------------------------------------
(* Bounds of the model.                                                    *)
MaxPages == 2
MaxPageItems == 2
MaxReminders == 2
MaxTicks == 2
MaxEvents == 2
MaxClockSteps == 4
MaxHandlerRuns == 2
MaxMessages == 2
MaxResolves == 2
MaxTouchRuns == 2
MaxMidnights == 1
MaxNotifies == 3
MaxUsers == 2
MaxLookups == 3
MaxCacheSteps == 3
MaxListed == 2
MaxDays == 3
MaxClassified == 2
MaxCronDays == 4
FirstCronDay == 3

-----------------------------------------------------------------------------
(* Generic helpers.                                                        *)
RECURSIVE Flatten(_)
Flatten(ss) == IF ss = <<>> THEN <<>> ELSE Head(ss) \o Flatten(Tail(ss))

IsStrictPrefix(s, t) == Len(s) < Len(t) /\ s = SubSeq(t, 1, Len(s))

\* String.prototype.toLowerCase on a sequence of characters.
LowerChar(c) == IF c = "A" THEN "a" ELSE IF c = "B" THEN "b" ELSE c

ToLowerCase(str) == [i \in DOMAIN str |-> LowerChar(str[i])]

\* String.prototype.includes.
Includes(hay, needle) ==
  \E i \in 0..(Len(hay) - Len(needle)) : SubSeq(hay, i + 1, i + Len(needle)) = needle

\* null and undefined, for the properties that hold a string otherwise.
Null == "null"
Undefined == "undefined"

\* Array.prototype.find: the first element satisfying P, or none.
Find(seq, P(_), none) ==
  IF \E i \in DOMAIN seq : P(seq[i])
    THEN seq[CHOOSE i \in DOMAIN seq : P(seq[i]) /\ \A j \in 1..(i - 1) : ~P(seq[j])]
    ELSE none

-----------------------------------------------------------------------------
(* The remote board.                                                       *)

\* The status labels an item of the board can carry.
Statuses == {"Hot Lead", "Passed / Inactive"}

\* item.id of the k-th item of page p.
ItemId(p, k) == 10 * p + k

\* item.name of the k-th item of page p, as a sequence of characters.
ItemName(p, k) == IF k = 1 THEN <<"A", "b">> ELSE <<"c", "d">>

\* The items of page p when it holds n items; the last item of a full page is
\* a passed / inactive one.
PageItems(p, n) ==
  [k \in 1..n |-> [id |-> ItemId(p, k),
                   name |-> ItemName(p, k),
                   status |-> IF k = 2 THEN "Passed / Inactive" ELSE "Hot Lead"]]

Boards ==
  UNION {[1..np -> 0..MaxPageItems] : np \in 1..MaxPages}

BoardPages(sizes) == [p \in DOMAIN sizes |-> PageItems(p, sizes[p])]

\* One error entry of a GraphQL "errors" array: whether its message contains
\* "rate limit" (any case) and its extensions.code.
GqlErrors ==
  { [msgRateLimit |-> FALSE, code |-> "NONE"],
    [msgRateLimit |-> TRUE,  code |-> "NONE"],
    [msgRateLimit |-> FALSE, code |-> "RATE_LIMIT"] }

NoData == [kind |-> "nodata"]

\* json.data of an items_page response for page p of the board b.
PageData(b, p) ==
  [kind |-> "page", items |-> b[p],
   cursor |-> IF p < Len(b) THEN p + 1 ELSE 0]

\* The HTTP responses one attempt can meet when it asks for page p.  Status 0
\* stands for the exchange failing (fetch() or the read of the body rejecting):
\* no complete HTTP response.
Responses(b, p) ==
  { [status |-> 0, errors |-> <<>>, error_message |-> FALSE, data |-> NoData] }
  \cup { [status |-> s, errors |-> <<>>, error_message |-> FALSE, data |-> NoData]
         : s \in {400, 401, 429, 500, 503} }
  \cup { [status |-> 200, errors |-> <<e>>, error_message |-> FALSE, data |-> NoData]
         : e \in GqlErrors }
  \cup { [status |-> 200, errors |-> <<>>, error_message |-> TRUE, data |-> NoData] }
  \cup { [status |-> 200, errors |-> <<>>, error_message |-> FALSE, data |-> d]
         : d \in { [kind |-> "noboard"], [kind |-> "nopage"], PageData(b, p) } }

-----------------------------------------------------------------------------
(* monday/client.js : mondayApi / attempt                                  *)

\* retryDelay, in milliseconds.
RetryDelay == 30000

ResponseOk(resp) == resp.status >= 200 /\ resp.status <= 299

IsRateLimit(errors) ==
  \E i \in DOMAIN errors : errors[i].msgRateLimit \/ errors[i].code = "RATE_LIMIT"

\* attempt's try block with the 5xx half of the retryable-status test lost.
AttemptTry_Only429(resp, rc) ==
  IF resp.status = 0
    THEN [threw |-> TRUE, retryable |-> FALSE]
  ELSE IF resp.status = 429 /\ rc = 0
    THEN [threw |-> TRUE, retryable |-> TRUE]
  ELSE IF ~ResponseOk(resp)
    THEN [threw |-> TRUE, retryable |-> FALSE]
  ELSE IF Len(resp.errors) > 0
    THEN [threw |-> TRUE, retryable |-> IsRateLimit(resp.errors) /\ rc = 0]
  ELSE IF resp.error_message
    THEN [threw |-> TRUE, retryable |-> FALSE]
  ELSE [threw |-> FALSE, retryable |-> FALSE]

\* attempt's try block marking every GraphQL error retryable.
AttemptTry_AnyGqlError(resp, rc) ==
  IF resp.status = 0
    THEN [threw |-> TRUE, retryable |-> FALSE]
  ELSE IF (resp.status = 429 \/ resp.status >= 500) /\ rc = 0
    THEN [threw |-> TRUE, retryable |-> TRUE]
  ELSE IF ~ResponseOk(resp)
    THEN [threw |-> TRUE, retryable |-> FALSE]
  ELSE IF Len(resp.errors) > 0
    THEN [threw |-> TRUE, retryable |-> rc = 0]
  ELSE IF resp.error_message
    THEN [threw |-> TRUE, retryable |-> FALSE]
  ELSE [threw |-> FALSE, retryable |-> FALSE]

\* The try block of attempt(retryCount): what it throws or returns.
AttemptTry(resp, rc) ==
  IF resp.status = 0
    THEN [threw |-> TRUE, retryable |-> FALSE]
  ELSE IF (resp.status = 429 \/ resp.status >= 500) /\ rc = 0
    THEN [threw |-> TRUE, retryable |-> TRUE]
  ELSE IF ~ResponseOk(resp)
    THEN [threw |-> TRUE, retryable |-> FALSE]
  ELSE IF Len(resp.errors) > 0
    THEN [threw |-> TRUE, retryable |-> IsRateLimit(resp.errors) /\ rc = 0]
  ELSE IF resp.error_message
    THEN [threw |-> TRUE, retryable |-> FALSE]
  ELSE [threw |-> FALSE, retryable |-> FALSE]

\* The catch block of attempt(retryCount): retry once on a retryable error.
AttemptRetries(resp, rc) ==
  LET r == AttemptTry(resp, rc) IN r.threw /\ r.retryable /\ rc = 0

\* mondayApi(query, variables) is called: attempt(0) issues the first request.
MondayApiCall ==
  /\ apiPc' = "attempt"
  /\ retryCount' = 0
  /\ apiLog' = <<>>
  /\ apiWaited' = 0
  /\ apiData' = NoData

\* The HTTP request of attempt(retryCount) completes with resp.
AttemptReturn(resp) ==
  /\ apiPc = "attempt"
  /\ apiLog' = Append(apiLog, resp)
  /\ IF AttemptRetries(resp, retryCount)
       THEN /\ apiPc' = "sleep"
            /\ apiWaited' = apiWaited + RetryDelay
            /\ UNCHANGED apiData
     ELSE IF AttemptTry(resp, retryCount).threw
       THEN /\ apiPc' = "thrown"
            /\ UNCHANGED <<apiWaited, apiData>>
     ELSE /\ apiPc' = "returned"
          /\ apiData' = resp.data
          /\ UNCHANGED apiWaited
  /\ UNCHANGED retryCount

\* sleep(30000) is over: attempt(retryCount + 1) issues the next request.
SleepDone ==
  /\ apiPc = "sleep"
  /\ apiPc' = "attempt"
  /\ retryCount' = retryCount + 1
  /\ UNCHANGED <<apiLog, apiWaited, apiData>>

-----------------------------------------------------------------------------
(* monday/queries.js : fetchAllBoardItems, getActiveInvestors              *)

\* The page the request with the current cursor asks for.
RequestedPage == IF cursor = 0 THEN 1 ELSE cursor

FetchAllBoardItemsStart ==
  /\ fetchPc = "idle"
  /\ fetchPc' = "calling"
  /\ cursor' = 0
  /\ allItems' = <<>>
  /\ fetchCalls' = 1
  /\ MondayApiCall
  /\ UNCHANGED <<board, gaResult>>

ApiAttempt ==
  /\ fetchPc = "calling"
  /\ \E resp \in Responses(board, RequestedPage) : AttemptReturn(resp)
  /\ UNCHANGED <<board, fetchPc, cursor, allItems, fetchCalls, gaResult>>

ApiSleep ==
  /\ fetchPc = "calling"
  /\ SleepDone
  /\ UNCHANGED <<board, fetchPc, cursor, allItems, fetchCalls, gaResult>>

\* mondayApi threw: the loop is left by the exception.
FetchApiThrew ==
  /\ fetchPc = "calling" /\ apiPc = "thrown"
  /\ fetchPc' = "thrown"
  /\ UNCHANGED <<board, cursor, allItems, fetchCalls, apiPc, retryCount, apiLog,
                 apiWaited, apiData, gaResult>>

\* mondayApi returned data: the rest of the loop body, up to the next call.
FetchApiReturned ==
  /\ fetchPc = "calling" /\ apiPc = "returned"
  /\ IF apiData.kind = "nodata"
       THEN \* data.boards on undefined: TypeError
            /\ fetchPc' = "thrown"
            /\ UNCHANGED <<cursor, allItems, fetchCalls, apiPc, retryCount,
                           apiLog, apiWaited, apiData>>
     ELSE IF apiData.kind \in {"noboard", "nopage"}
       THEN \* if (!board || !board.items_page) break;
            /\ fetchPc' = "returned"
            /\ UNCHANGED <<cursor, allItems, fetchCalls, apiPc, retryCount,
                           apiLog, apiWaited, apiData>>
     ELSE /\ allItems' = allItems \o apiData.items
          /\ IF apiData.cursor = 0
               THEN /\ fetchPc' = "returned"
                    /\ UNCHANGED <<cursor, fetchCalls, apiPc, retryCount,
                                   apiLog, apiWaited, apiData>>
               ELSE /\ cursor' = apiData.cursor
                    /\ fetchCalls' = fetchCalls + 1
                    /\ MondayApiCall
                    /\ UNCHANGED fetchPc
  /\ UNCHANGED <<board, gaResult>>

\* The filter of getActiveInvestors on the parsed items.
IsActive(item) == item.status # "Passed / Inactive"

ActiveOf(items) == SelectSeq(items, IsActive)

\* getActiveInvestors: the filtered items, or [] when the fetch threw.
GetActiveInvestorsResult(pc, items) ==
  IF pc = "thrown" THEN <<>> ELSE ActiveOf(items)

GetActiveInvestorsReturn ==
  /\ fetchPc \in {"returned", "thrown"}
  /\ ~gaResult.done
  /\ gaResult' = [done |-> TRUE, list |-> GetActiveInvestorsResult(fetchPc, allItems)]
  /\ UNCHANGED <<board, fetchPc, cursor, allItems, fetchCalls, apiPc, retryCount,
                 apiLog, apiWaited, apiData>>

BoardRest ==
  /\ fetchPc = "idle"
  /\ cursor = 0
  /\ allItems = <<>>
  /\ fetchCalls = 0
  /\ apiPc = "idle"
  /\ retryCount = 0
  /\ apiLog = <<>>
  /\ apiWaited = 0
  /\ apiData = NoData
  /\ gaResult = [done |-> FALSE, list |-> <<>>]

BoardNext ==
  \/ FetchAllBoardItemsStart /\ UNCHANGED OutsideBoard
  \/ ApiAttempt /\ UNCHANGED OutsideBoard
  \/ ApiSleep /\ UNCHANGED OutsideBoard
  \/ FetchApiThrew /\ UNCHANGED OutsideBoard
  \/ FetchApiReturned /\ UNCHANGED OutsideBoard
  \/ GetActiveInvestorsReturn /\ UNCHANGED OutsideBoard

-----------------------------------------------------------------------------
(* reminders/store.js                                                      *)

\* The properties of a stored reminder the model keeps.  addReminder computes
\* id and scheduledAt itself; userEmail is whatever the caller passed.
ReminderFields == {"id", "itemId", "investorName", "scheduledAt", "userEmail"}

\* JSON.stringify of the list: a property whose value is undefined is left out.
JsonStringify(list) ==
  [i \in DOMAIN list |->
     [k \in ReminderFields \ {f \in {"userEmail"} : list[i][f] = Undefined}
        |-> list[i][k]]]

\* JSON.parse of the file's text: reading a property the text does not carry
\* yields undefined.
JsonParse(text) ==
  [i \in DOMAIN text |->
     [k \in ReminderFields |-> IF k \in DOMAIN text[i] THEN text[i][k] ELSE Undefined]]

\* saveReminders: writeFileSync either replaces the file by the list's JSON or
\* throws, which is caught and logged; the file then keeps its content.
SaveReminders(list) ==
  /\ file' = IF diskOk THEN [exists |-> TRUE, text |-> JsonStringify(list)] ELSE file
  /\ lastSave' = IF diskOk THEN "ok" ELSE "failed"
  /\ UNCHANGED diskOk

\* loadReminders: the parsed file when it exists, else the list as it is.
LoadReminders(list, f) == IF f.exists THEN JsonParse(f.text) ELSE list

\* The reminder addReminder builds, with id the next id.
NewReminder(id, itemId, investorName, scheduledAt, userEmail) ==
  [id |-> id, itemId |-> itemId, investorName |-> investorName,
   scheduledAt |-> scheduledAt, userEmail |-> userEmail]

\* addReminder(...): push, then saveReminders.
AddReminder(itemId, investorName, scheduledAt, userEmail) ==
  /\ nextId' = nextId + 1
  /\ reminders' = Append(reminders,
                         NewReminder(nextId + 1, itemId, investorName,
                                     scheduledAt, userEmail))
  /\ SaveReminders(reminders')

\* getDueReminders without its filter: every stored reminder.
GetDueReminders_All(list, t) == list

\* getDueReminders at clock value t.
GetDueReminders(list, t) == SelectSeq(list, LAMBDA r : r.scheduledAt <= t)

\* removeReminder writing back what is left of the due-sets the ticks read
\* earlier instead of filtering the list as it is now.
RemoveReminder_FromDueSets(id) ==
  /\ reminders' =
       SelectSeq(reminders,
                 LAMBDA r : /\ r.id # id
                            /\ \E t \in DOMAIN ticks : \E i \in DOMAIN ticks[t].due :
                                  ticks[t].due[i].id = r.id)
  /\ SaveReminders(reminders')

\* removeReminder(id): filter, then saveReminders.
RemoveReminder(id) ==
  /\ reminders' = SelectSeq(reminders, LAMBDA r : r.id # id)
  /\ SaveReminders(reminders')

\* The arguments the handlers pass to addReminder.
\* <<investor.id, investor.name, scheduledAt, userEmail>>: the active item of
\* the board, due late and without an address; an item that has left the
\* board but whose name still matches one, due early with an address; and
\* one that is gone.
ReminderArgs ==
  { <<11, <<"A", "b">>, 2, Null>>,
    <<99, <<"a", "b">>, 1, "u@x">>,
    <<99, <<"z">>, 1, "u@x">> }

StoreRest ==
  /\ reminders = <<>>
  /\ file = [exists |-> FALSE, text |-> <<>>]
  /\ lastSave = "none"
  /\ diskOk = TRUE
  /\ nextId = 0

\* A handler calls addReminder.
AddReminderCall ==
  /\ running = 0
  /\ nextId < MaxReminders
  /\ \E a \in ReminderArgs : AddReminder(a[1], a[2], a[3], a[4])

\* The checker calls removeReminder for a stored reminder.
RemoveReminderCall ==
  /\ running = 0
  /\ \E i \in DOMAIN reminders : RemoveReminder(reminders[i].id)
  /\ UNCHANGED nextId

\* The process is restarted: the module state is rebuilt and loadReminders
\* reads the file.
Restart ==
  /\ running = 0
  /\ reminders' = LoadReminders(<<>>, file)
  /\ lastSave' = "none"
  /\ UNCHANGED <<file, diskOk, nextId>>

\* The disk starts or stops refusing writes (full, read-only, permissions).
DiskChanges ==
  /\ running = 0
  /\ diskOk' = ~diskOk
  /\ UNCHANGED <<reminders, file, lastSave, nextId>>

StoreNext ==
  \/ AddReminderCall /\ UNCHANGED OutsideStore
  \/ RemoveReminderCall /\ UNCHANGED OutsideStore
  \/ Restart /\ UNCHANGED OutsideStore
  \/ DiskChanges /\ UNCHANGED OutsideStore

-----------------------------------------------------------------------------
(* reminders/checker.js : the setInterval callback of startReminderChecker  *)

\* A run of the callback: its position, the due-set it read, the index of the
\* reminder the for loop is at, the fetched investors and the one resolved.
\* pc: "unstarted", "fetch" (await getActiveInvestors), "loop" (running the
\* for loop), "suggest" (await generateFollowUpSuggestion), "email" (await
\* sendReminderEmail), "post" (await chat.postMessage), "done".
NoInvestor == [id |-> 0, name |-> <<>>, status |-> ""]

NoTick ==
  [pc |-> "unstarted", due |-> <<>>, idx |-> 0, investors |-> <<>>,
   investor |-> NoInvestor]

Suspended(pc) == pc \in {"fetch", "suggest", "email", "post"}

ReminderIds == 1..MaxReminders

\* The investor of the reminder: by item id first, then by name containment.
ResolveInvestor(investors, reminder) ==
  LET byId == Find(investors, LAMBDA inv : inv.id = reminder.itemId, NoInvestor)
      lowerName == ToLowerCase(reminder.investorName)
  IN IF byId # NoInvestor THEN byId
     ELSE Find(investors, LAMBDA inv : Includes(ToLowerCase(inv.name), lowerName),
               NoInvestor)

\* The callback going to the fetch whatever the due-set holds.
AfterDueRead_AlwaysFetch(due) == "fetch"

\* if (dueReminders.length === 0) return; else await getActiveInvestors()
AfterDueRead(due) == IF due = <<>> THEN "done" ELSE "fetch"

\* The interval elapses: the callback starts, reads the due reminders and, if
\* there are any, suspends on getActiveInvestors.
TimerFire ==
  /\ running = 0
  /\ now < MaxTicks
  /\ now' = now + 1
  /\ LET due == GetDueReminders(reminders, now')
     IN /\ ticks' = [ticks EXCEPT ![now'] =
                       [NoTick EXCEPT !.pc = AfterDueRead(due),
                                      !.due = due]]
        /\ dueCount' = [id \in ReminderIds |->
                          IF \E i \in DOMAIN due : due[i].id = id
                            THEN dueCount[id] + 1 ELSE dueCount[id]]
  /\ UNCHANGED <<storeVars, channelOk, running, sends, removedAs>>

\* getActiveInvestors resolves, with the board's active items or, when the
\* fetch threw, with [].  The for loop starts.
FetchReturn(t) ==
  /\ running = 0
  /\ ticks[t].pc = "fetch"
  /\ \E outcome \in {"returned", "thrown"} :
       ticks' = [ticks EXCEPT ![t].pc = "loop", ![t].idx = 1,
                   ![t].investors =
                      GetActiveInvestorsResult(outcome, Flatten(board))]
  /\ running' = t
  /\ UNCHANGED <<storeVars, now, channelOk, dueCount, sends, removedAs>>

\* The end of one reminder's iteration: removeReminder, then the next one.
FinishReminder(t, how) ==
  /\ RemoveReminder(ticks[t].due[ticks[t].idx].id)
  /\ removedAs' = [removedAs EXCEPT ![ticks[t].due[ticks[t].idx].id] = how]
  /\ ticks' = [ticks EXCEPT ![t].pc = "loop", ![t].idx = @ + 1,
                            ![t].investor = NoInvestor]
  /\ running' = t
  /\ UNCHANGED nextId

\* After the email step: post to Slack when a client and a channel are there,
\* else the iteration ends.
PostOrFinish(t) ==
  IF channelOk
    THEN /\ ticks' = [ticks EXCEPT ![t].pc = "post"]
         /\ sends' = [sends EXCEPT ![ticks[t].due[ticks[t].idx].id] = TRUE]
         /\ running' = 0
         /\ UNCHANGED <<storeVars, removedAs>>
    ELSE /\ FinishReminder(t, "handled")
         /\ UNCHANGED sends

\* One step of the for loop: the loop ends, or the reminder is unresolvable
\* and removed, or its investor is found and the callback suspends on the
\* suggestion call.
LoopStep(t) ==
  /\ running = t
  /\ ticks[t].pc = "loop"
  /\ IF ticks[t].idx > Len(ticks[t].due)
       THEN /\ ticks' = [ticks EXCEPT ![t] = [NoTick EXCEPT !.pc = "done"]]
            /\ running' = 0
            /\ UNCHANGED <<storeVars, sends, removedAs>>
     ELSE LET investor == ResolveInvestor(ticks[t].investors,
                                          ticks[t].due[ticks[t].idx])
          IN IF investor = NoInvestor
               THEN /\ FinishReminder(t, "unresolvable")
                    /\ UNCHANGED sends
               ELSE /\ ticks' = [ticks EXCEPT ![t].pc = "suggest",
                                              ![t].investor = investor]
                    /\ running' = 0
                    /\ UNCHANGED <<storeVars, sends, removedAs>>
  /\ UNCHANGED <<now, channelOk, dueCount>>

\* generateFollowUpSuggestion settles (a rejection is caught): the email is
\* sent when the reminder carries an address.
SuggestReturn(t) ==
  /\ running = 0
  /\ ticks[t].pc = "suggest"
  /\ IF ticks[t].due[ticks[t].idx].userEmail \notin {Null, Undefined}
       THEN /\ ticks' = [ticks EXCEPT ![t].pc = "email"]
            /\ sends' = [sends EXCEPT ![ticks[t].due[ticks[t].idx].id] = TRUE]
            /\ UNCHANGED <<storeVars, running, removedAs>>
       ELSE PostOrFinish(t)
  /\ UNCHANGED <<now, channelOk, dueCount>>

\* sendReminderEmail resolves (true or false, it never rejects).
EmailReturn(t) ==
  /\ running = 0
  /\ ticks[t].pc = "email"
  /\ PostOrFinish(t)
  /\ UNCHANGED <<now, channelOk, dueCount>>

\* The rejection of chat.postMessage taken to the catch of the whole tick:
\* the tick ends with the reminder and the rest of the due-set untouched.
PostRejected_EndsTick(t) ==
  /\ ticks' = [ticks EXCEPT ![t] = [NoTick EXCEPT !.pc = "done"]]
  /\ UNCHANGED <<storeVars, running, removedAs>>

\* catch (innerErr): the reminder is removed and the for loop goes on.
PostRejected(t) == FinishReminder(t, "failed")

\* chat.postMessage settles: the reminder is removed after the post, or by
\* the catch block when the post rejected.
PostReturn(t) ==
  /\ running = 0
  /\ ticks[t].pc = "post"
  /\ \E outcome \in {"returned", "thrown"} :
       IF outcome = "thrown" THEN PostRejected(t) ELSE FinishReminder(t, "handled")
  /\ UNCHANGED <<now, channelOk, dueCount, sends>>

\* The board of the checker runs: one page, an active item and a passed one.
CheckerBoard == BoardPages(<<2>>)

CheckerRest ==
  /\ now = 0
  /\ channelOk = TRUE
  /\ ticks = [t \in 1..MaxTicks |-> NoTick]
  /\ running = 0
  /\ dueCount = [id \in ReminderIds |-> 0]
  /\ sends = [id \in ReminderIds |-> FALSE]
  /\ removedAs = [id \in ReminderIds |-> "none"]

CheckerNext ==
  \/ AddReminderCall /\ UNCHANGED checkerVars /\ UNCHANGED OutsideChecker
  \/ TimerFire /\ UNCHANGED OutsideChecker
  \/ \E t \in DOMAIN ticks : FetchReturn(t) /\ UNCHANGED OutsideChecker
  \/ \E t \in DOMAIN ticks : LoopStep(t) /\ UNCHANGED OutsideChecker
  \/ \E t \in DOMAIN ticks : SuggestReturn(t) /\ UNCHANGED OutsideChecker
  \/ \E t \in DOMAIN ticks : EmailReturn(t) /\ UNCHANGED OutsideChecker
  \/ \E t \in DOMAIN ticks : PostReturn(t) /\ UNCHANGED OutsideChecker

-----------------------------------------------------------------------------
(* slack/commands.js : processedMessages, its pruning timer, and the head   *)
(* of the main message listener                                            *)

\* An entry older than this is deleted by the pruning timer (milliseconds).
PruneAge == 300000

\* The pruning timer's interval (milliseconds).
PruneInterval == 300000

\* The clock of the model advances by half a pruning interval.
ClockStep == PruneInterval \div 2

MessageTs == {"ts1", "ts2"}

NoEntry == -1

\* An event: pc is "none" (not delivered), "channel" (await isCorrectChannel),
\* "dropped" (a filter returned), "duplicate" (the dedup check returned) or
\* "classify" (past every filter, on to the regex rules and the classifier).
NoEvent ==
  [pc |-> "none", ts |-> "ts1", emptyText |-> FALSE, channelMatch |-> FALSE,
   checkedAt |-> NoEntry]

\* shouldProcess(message)
ShouldProcess(botOrSubtype) == ~botOrSubtype

\* The pruning test turned round: deletes the entries younger than five minutes.
PruneDeletes_Flipped(time, t) == time > t - PruneAge

\* The pruning test with the entry that is exactly five minutes old deleted too.
PruneDeletes_AtFiveMinutes(time, t) == time <= t - PruneAge

\* The pruning timer's test on one entry.
PruneDeletes(time, t) == time < t - PruneAge

\* The event is handed to the listener: shouldProcess, then the listener
\* suspends on isCorrectChannel.
EventDelivered(e) ==
  /\ events[e].pc = "none"
  /\ \A d \in 1..(e - 1) : events[d].pc # "none"
  /\ \E ts \in MessageTs, botOrSubtype \in BOOLEAN, empty \in BOOLEAN,
        match \in BOOLEAN :
        events' = [events EXCEPT ![e] =
                     [NoEvent EXCEPT
                        !.pc = IF ShouldProcess(botOrSubtype) THEN "channel"
                                                               ELSE "dropped",
                        !.ts = ts, !.emptyText = empty, !.channelMatch = match]]
  /\ UNCHANGED <<clock, processedMessages>>

\* isCorrectChannel resolves; the listener runs on: the dedup test and record,
\* then the empty-text test.
ChannelChecked(e) ==
  /\ events[e].pc = "channel"
  /\ IF ~events[e].channelMatch
       THEN /\ events' = [events EXCEPT ![e].pc = "dropped"]
            /\ UNCHANGED processedMessages
     ELSE IF processedMessages[events[e].ts] # NoEntry
       THEN /\ events' = [events EXCEPT ![e].pc = "duplicate",
                                        ![e].checkedAt = clock]
            /\ UNCHANGED processedMessages
     ELSE /\ processedMessages' = [processedMessages EXCEPT ![events[e].ts] = clock]
          /\ events' = [events EXCEPT
                          ![e].pc = IF events[e].emptyText THEN "dropped"
                                                            ELSE "classify",
                          ![e].checkedAt = clock]
  /\ UNCHANGED clock

\* Time passes; when a pruning interval has elapsed the pruning timer runs.
ClockAdvances ==
  /\ clock < MaxClockSteps * ClockStep
  /\ clock' = clock + ClockStep
  /\ processedMessages' =
       IF clock' % PruneInterval = 0
         THEN [ts \in MessageTs |->
                 IF processedMessages[ts] # NoEntry
                    /\ PruneDeletes(processedMessages[ts], clock')
                   THEN NoEntry ELSE processedMessages[ts]]
         ELSE processedMessages
  /\ UNCHANGED events

DedupRest ==
  /\ clock = 0
  /\ processedMessages = [ts \in MessageTs |-> NoEntry]
  /\ events = [e \in 1..MaxEvents |-> NoEvent]

DedupNext ==
  \/ \E e \in DOMAIN events : EventDelivered(e) /\ UNCHANGED OutsideDedup
  \/ \E e \in DOMAIN events : ChannelChecked(e) /\ UNCHANGED OutsideDedup
  \/ ClockAdvances /\ UNCHANGED OutsideDedup

-----------------------------------------------------------------------------
(* slack/commands.js : handleScheduleFollowUp and handleAssignFollowUp      *)

\* hPc: "idle"; "resolve" (await resolveInvestor); "assignee" (await
\* resolveSlackUserToMonday / resolveNameToMonday); "mutate" (await
\* updateNextFollowUp); "userinfo" (await client.users.info); "assign" (await
\* updateAssignedTo); "notify" (await notifyAssignment); "done".

NoMapping == [mondayPersonId |-> Null, slackUserId |-> Null, slackEmail |-> Null]

\* What the identity resolver can hand back.
AssigneeMappings ==
  { NoMapping,
    [mondayPersonId |-> Null, slackUserId |-> "U2", slackEmail |-> "u@x"],
    [mondayPersonId |-> "p1", slackUserId |-> "U2", slackEmail |-> Null] }

\* The dates parseNaturalDate can return, in checker intervals.
ParsedDates == {1, 2}

\* What parseNaturalDate hands the handlers when the expression parses: the
\* object { date, hasTime } of utils/dateParser.js, which the handlers
\* require, or the Date of the earlier parseNaturalDate the repository still
\* carries in slack/notifications.js and the handlers were written for.
ParseResults == {"object", "Date"}

\* formatDateYMD(parsedDate) throws: date.getFullYear is not a function of
\* the object.
FormatDateYMDThrows(parsed) == parsed # "Date"

\* dateExpression.match(/\d{1,2}\s*(?:am|pm|:\d{2})/i) decides whether the
\* confirmation promises a reminder.
Confirmation(hasTime) == IF hasTime THEN "done, will remind" ELSE "done"

\* updateNextFollowUp: mondayApi's data, or null when mondayApi threw.
UpdateNextFollowUpResult(outcome) == IF outcome = "thrown" THEN Null ELSE "data"

\* The handlers' test of the mutation's result with the test dropped.
FollowUpFailed_Ignored(result) == FALSE

\* if (!result) / if (!followUpResult) of the handlers.
FollowUpFailed(result) == result = Null

\* x || null
OrNull(x) == IF x = Undefined THEN Null ELSE x

HandlerEnds(reply) ==
  /\ hPc' = "done"
  /\ hReply' = reply

\* The head of handleScheduleFollowUp / handleAssignFollowUp, up to the
\* await of resolveInvestor: intent.investorName is there (hasName) or not.
HandlerInvoke(kind, hasName) ==
  /\ hRuns' = hRuns + 1
  /\ hStartId' = nextId
  /\ hNote' = ""
  /\ hAssignTried' = FALSE
  /\ hInvestor' = NoInvestor
  /\ hDate' = 0
  /\ hAssignee' = NoMapping
  /\ hResult' = Null
  /\ hKind' = kind
  /\ IF hasName THEN hPc' = "resolve" /\ hReply' = "none"
                ELSE HandlerEnds("which investor")
  /\ UNCHANGED <<followUpOnBoard, storeVars>>

\* The router invokes one of the two handlers with the classifier's intent.
HandlerStart ==
  /\ hPc \in {"idle", "done"}
  /\ hRuns < MaxHandlerRuns
  /\ \E kind \in {"schedule", "assign"}, hasName \in BOOLEAN :
       HandlerInvoke(kind, hasName)

\* resolveInvestor resolves; then the date is parsed and formatted (a
\* TypeError of formatDateYMD leaves the handler and reaches the catch of the
\* listener) and, in the assign handler, the assignee is looked at.
ResolveReturn ==
  /\ hPc = "resolve"
  /\ \E found \in BOOLEAN, date \in ParsedDates \cup {0}, hasAssignee \in BOOLEAN,
        parsed \in ParseResults :
       IF ~found
         THEN HandlerEnds("resolve error") /\ UNCHANGED <<hInvestor, hDate>>
       ELSE /\ hInvestor' = ActiveOf(Flatten(board))[1]
            /\ hDate' = date
            /\ IF date = 0 THEN HandlerEnds("which date")
               ELSE IF FormatDateYMDThrows(parsed) THEN HandlerEnds("threw")
               ELSE IF hKind = "schedule" THEN hPc' = "mutate" /\ UNCHANGED hReply
               ELSE IF ~hasAssignee THEN HandlerEnds("which assignee")
               ELSE hPc' = "assignee" /\ UNCHANGED hReply
  /\ UNCHANGED <<hKind, hAssignee, hResult, hRuns, hStartId, hNote, hAssignTried,
                 followUpOnBoard, storeVars>>

\* The identity resolver returns a mapping (it never throws).
AssigneeReturn ==
  /\ hPc = "assignee"
  /\ \E m \in AssigneeMappings : hAssignee' = m
  /\ hPc' = "mutate"
  /\ UNCHANGED <<hKind, hInvestor, hDate, hResult, hReply, hRuns, hStartId,
                 hNote, hAssignTried, followUpOnBoard, storeVars>>

\* The assign handler's addReminder for the assignee, then the DM or the reply.
AssignAddsReminder ==
  /\ AddReminder(hInvestor.id, hInvestor.name, hDate, OrNull(hAssignee.slackEmail))
  /\ IF hAssignee.slackUserId # Null
       THEN hPc' = "notify" /\ UNCHANGED hReply
       ELSE HandlerEnds("done")

\* The assign handler's test with a Slack identity taken for a board person.
HasMondayPerson_OrSlackUser(mapping) ==
  mapping.mondayPersonId # Null \/ mapping.slackUserId # Null

\* if (assigneeMapping.mondayPersonId)
HasMondayPerson(mapping) == mapping.mondayPersonId # Null

\* updateNextFollowUp returns: the board took the date, or the call threw.
\* The assign handler then calls updateAssignedTo when the mapping holds a
\* board person, and otherwise notes that it found none.
MutateReturn ==
  /\ hPc = "mutate"
  /\ \E outcome \in {"returned", "thrown"} :
       /\ hResult' = UpdateNextFollowUpResult(outcome)
       /\ followUpOnBoard' =
            IF outcome = "returned"
              THEN [followUpOnBoard EXCEPT ![hInvestor.id] = hDate]
              ELSE followUpOnBoard
  /\ IF FollowUpFailed(hResult')
       THEN /\ HandlerEnds("could not update")
            /\ UNCHANGED <<hNote, hAssignTried, storeVars>>
     ELSE IF hKind = "schedule"
       THEN hPc' = "userinfo" /\ UNCHANGED <<hReply, hNote, hAssignTried, storeVars>>
     ELSE IF HasMondayPerson(hAssignee)
       THEN /\ hPc' = "assign"
            /\ hAssignTried' = TRUE
            /\ UNCHANGED <<hReply, hNote, storeVars>>
     ELSE /\ hNote' = "not found"
          /\ AssignAddsReminder
          /\ UNCHANGED hAssignTried
  /\ UNCHANGED <<hKind, hInvestor, hDate, hAssignee, hRuns, hStartId>>

\* client.users.info settles: the schedule handler adds the reminder, or the
\* rejection is caught and none is added; then the confirmation is sent, with
\* the promise of a reminder when the expression states a time.
UserInfoReturn ==
  /\ hPc = "userinfo"
  /\ \E ok \in BOOLEAN, email \in {Undefined, "u@x"} :
       IF ok THEN AddReminder(hInvestor.id, hInvestor.name, hDate, OrNull(email))
             ELSE UNCHANGED storeVars
  /\ \E hasTime \in BOOLEAN : HandlerEnds(Confirmation(hasTime))
  /\ UNCHANGED <<hKind, hInvestor, hDate, hAssignee, hResult, hRuns, hStartId,
                 hNote, hAssignTried, followUpOnBoard>>

\* updateAssignedTo returns (data or null) and the note says which; the
\* reminder is added either way.
AssignReturn ==
  /\ hPc = "assign"
  /\ \E outcome \in {"returned", "thrown"} :
       hNote' = IF outcome = "returned" THEN "assigned" ELSE "assign failed"
  /\ AssignAddsReminder
  /\ UNCHANGED <<hKind, hInvestor, hDate, hAssignee, hResult, hRuns, hStartId,
                 hAssignTried, followUpOnBoard>>

\* notifyAssignment resolves; the confirmation is sent.
NotifyReturn ==
  /\ hPc = "notify"
  /\ HandlerEnds("done")
  /\ UNCHANGED <<hKind, hInvestor, hDate, hAssignee, hResult, hRuns, hStartId,
                 hNote, hAssignTried, followUpOnBoard, storeVars>>

HandlerRest ==
  /\ hPc = "idle"
  /\ hKind = "schedule"
  /\ hInvestor = NoInvestor
  /\ hDate = 0
  /\ hAssignee = NoMapping
  /\ hResult = Null
  /\ hReply = "none"
  /\ hRuns = 0
  /\ hStartId = 0
  /\ hNote = ""
  /\ hAssignTried = FALSE
  /\ followUpOnBoard = [id \in {11} |-> 0]

HandlerNext ==
  \/ HandlerStart /\ UNCHANGED OutsideHandler
  \/ ResolveReturn /\ UNCHANGED OutsideHandler
  \/ AssigneeReturn /\ UNCHANGED OutsideHandler
  \/ MutateReturn /\ UNCHANGED OutsideHandler
  \/ UserInfoReturn /\ UNCHANGED OutsideHandler
  \/ AssignReturn /\ UNCHANGED OutsideHandler
  \/ NotifyReturn /\ UNCHANGED OutsideHandler

-----------------------------------------------------------------------------
(* ai/intentParser.js : parseIntent                                        *)

\* Confidences are in hundredths: 0.5 is 50.
ConfidenceThreshold == 50

\* parsed.confidence = 0.5 when the classifier gave no number.
DefaultConfidence == 50

\* A property that is undefined where a number is read.
NotNumber == -1

\* The action tags of the system prompt, and one it does not list.
IntentActions ==
  { "unknown", "schedule_followup", "assign_followup", "check_status",
    "made_up" }

\* The slots the router has a question for.
AskedSlots == {"investorName", "assignee", "date"}

\* The missing_info arrays: none, one or two distinct ones of the slots the
\* router asks about, in any order, and one that starts with a slot it has
\* no question for.
MissingLists ==
  { <<>> } \cup { <<a>> : a \in AskedSlots }
  \cup { m \in AskedSlots \X AskedSlots : m[1] # m[2] }
  \cup { <<"statusFilter", "investorName">> }

\* A JavaScript value as parseIntent and the router read it: its type and the
\* properties action, confidence, missing_info and investorName (hasName).
JsValue(type, action, confidence, missingIsArray, missing, hasName) ==
  [type |-> type, action |-> action, confidence |-> confidence,
   missingIsArray |-> missingIsArray, missing_info |-> missing,
   hasName |-> hasName]

\* A value with none of the properties: a primitive, or an empty array.
Bare(type) == JsValue(type, Undefined, NotNumber, FALSE, <<>>, FALSE)

\* The confidences of the classifier, in hundredths: none (it is then set to
\* the default, 0.5), one below the threshold and one above 1.
Confidences == {NotNumber, 30, 150}

\* What JSON.parse can give for a well-formed text.
JsonValues ==
  { Bare(t) : t \in {"null", "number", "string", "boolean", "array"} }
  \cup { JsValue("object", a, c, TRUE, m, n) :
           a \in IntentActions \cup {Undefined},
           c \in Confidences,
           m \in MissingLists,
           n \in BOOLEAN }
  \cup { JsValue("object", a, c, FALSE, <<>>, n) :
           a \in IntentActions \cup {Undefined},
           c \in Confidences,
           n \in BOOLEAN }

\* The classifier call: it rejects, or answers with no text, or with a text:
\* a JSON text that is well-formed (the value it denotes) or not, bare or
\* between code fences ("both"), after an opening fence only ("open") or
\* followed by a closing fence only ("trailing").
Fences == {"none", "both", "open", "trailing"}

ClassifierOutcomes ==
  { [kind |-> k, fence |-> "none", wellFormed |-> FALSE, value |-> Bare("null")]
      : k \in {"callFailed", "empty"} }
  \cup { [kind |-> "text", fence |-> f, wellFormed |-> FALSE, value |-> Bare("null")]
           : f \in Fences }
  \cup { [kind |-> "text", fence |-> f, wellFormed |-> TRUE, value |-> v]
           : f \in Fences, v \in JsonValues }

\* The fallback intent of parseIntent.
UnknownIntent == JsValue("object", "unknown", 0, TRUE, <<>>, FALSE)

\* The fence stripping: only a text that starts with a fence is touched; the
\* result says whether JSON.parse will accept what is left.
StripFences(outcome) ==
  outcome.wellFormed /\ outcome.fence \in {"none", "both", "open"}

\* "Validate required fields" on the parsed value.  The module is not in
\* strict mode: an assignment to a property of a primitive is dropped.
ValidateFields(parsed) ==
  IF parsed.type \in {"number", "string", "boolean"} THEN parsed
  ELSE [parsed EXCEPT
          !.action = IF parsed.action = Undefined THEN "unknown" ELSE @,
          !.confidence = IF parsed.confidence = NotNumber
                           THEN DefaultConfidence ELSE @,
          !.missingIsArray = TRUE,
          !.missing_info = IF parsed.missingIsArray THEN @ ELSE <<>>]

\* parseIntent(messageText) for a non-empty text, by the classifier outcome.
\* Reading parsed.action of null throws, which the catch block turns into the
\* fallback intent, like a rejected call or a JSON.parse error.
ParseIntent(outcome) ==
  IF outcome.kind = "callFailed" THEN UnknownIntent
  ELSE IF outcome.kind = "empty" THEN UnknownIntent
  ELSE IF ~StripFences(outcome) THEN UnknownIntent
  ELSE IF outcome.value.type = "null" THEN UnknownIntent
  ELSE ValidateFields(outcome.value)

-----------------------------------------------------------------------------
(* slack/commands.js : the listener past its filters, the regex fast path   *)
(* and the routing of the classifier's intent                              *)

\* rPc: "idle"; "parsing" (await parseIntent); "saying" (await say of the
\* router's own reply); "handler" (await of the handler invoked); "done".

\* What the four regular expressions of the fast path make of the text.
RegexMatches == {"testMonday", "overdue", "statusCheck", "touchpoint", "none"}

\* The texts that reach the listener's try block, as sequences of words.
MessageTexts ==
  { <<"test", "monday">>,
    <<"who's", "overdue">>,
    <<"who's", "overdue", "status", "on", "Ab">>,
    <<"check", "on", "Ab", "contacted", "cd">>,
    <<"overdue", "investors", "contacted", "today">>,
    <<"contacted", "Ab">>,
    <<"follow", "up", "Ab">> }

\* The text holds the words ws next to each other, followed by at least
\* more further words.
HoldsWords(text, ws, more) ==
  \E i \in 1..Len(text) :
    /\ i + Len(ws) - 1 + more <= Len(text)
    /\ SubSeq(text, i, i + Len(ws) - 1) = ws

\* REGEX_PATTERNS[rule].test(text)
RuleMatches(rule, text) ==
  IF rule = "testMonday" THEN text = <<"test", "monday">>
  ELSE IF rule = "overdue"
    THEN \/ HoldsWords(text, <<"who's", "overdue">>, 0)
         \/ HoldsWords(text, <<"overdue", "investors">>, 0)
  ELSE IF rule = "statusCheck"
    THEN \/ HoldsWords(text, <<"status", "on">>, 1)
         \/ HoldsWords(text, <<"check", "on">>, 1)
  ELSE IF rule = "touchpoint"
    THEN \/ HoldsWords(text, <<"contacted">>, 1)
         \/ HoldsWords(text, <<"spoke", "with">>, 1)
         \/ HoldsWords(text, <<"reached", "out", "to">>, 1)
  ELSE FALSE

\* The listener's tests in another order: the touchpoint rule first.
FirstMatch_TouchpointFirst(text) ==
  IF RuleMatches("touchpoint", text) THEN "touchpoint"
  ELSE IF RuleMatches("testMonday", text) THEN "testMonday"
  ELSE IF RuleMatches("overdue", text) THEN "overdue"
  ELSE IF RuleMatches("statusCheck", text) THEN "statusCheck"
  ELSE "none"

\* The listener's tests in their order: the first rule that matches, each
\* followed by a return.
FirstMatch(text) ==
  IF RuleMatches("testMonday", text) THEN "testMonday"
  ELSE IF RuleMatches("overdue", text) THEN "overdue"
  ELSE IF RuleMatches("statusCheck", text) THEN "statusCheck"
  ELSE IF RuleMatches("touchpoint", text) THEN "touchpoint"
  ELSE "none"

\* The handler each fast-path pattern invokes.
FastPathHandler(match) ==
  IF match = "testMonday" THEN "test_monday"
  ELSE IF match = "overdue" THEN "list_overdue"
  ELSE IF match = "statusCheck" THEN "check_status"
  ELSE "log_touchpoint"

\* The cases of the switch on intent.action.
RoutedActions ==
  { "schedule_followup", "assign_followup", "log_touchpoint", "check_status",
    "list_overdue", "list_by_status", "list_not_contacted", "test_monday",
    "add_investor", "contact_info", "count_investors" }

NoRaw == [kind |-> "none", fence |-> "none", wellFormed |-> FALSE, type |-> "null"]

\* The confidence test with the threshold comparison lost.
LowConfidence_OnlyUnknown(intent) == intent.action = "unknown"

\* intent.confidence < 0.5 || intent.action === 'unknown'; undefined < 0.5 is
\* false.
LowConfidence(intent) ==
  \/ intent.confidence # NotNumber /\ intent.confidence < ConfidenceThreshold
  \/ intent.action = "unknown"

\* The clarifying question for intent.missing_info[0], or "none" when the
\* router asks none and goes on to the switch.
MissingQuestion(intent) ==
  IF ~(intent.missingIsArray /\ Len(intent.missing_info) > 0) THEN "none"
  ELSE IF intent.missing_info[1] = "investorName" THEN "which investor"
  ELSE IF intent.missing_info[1] = "assignee" THEN "which assignee"
  ELSE IF intent.missing_info[1] = "date" THEN "which date"
  ELSE "none"

\* The router calls say(text) and suspends on it.
RouterSays(text) ==
  /\ rReplies' = Append(rReplies, text)
  /\ rPc' = "saying"
  /\ UNCHANGED <<rHandler, handlerVars, storeVars>>

\* The router calls a handler and suspends on it.  The schedule and assign
\* handlers run as modelled above; the others are left abstract.
RouterInvokes(handler, hasName) ==
  /\ rHandler' = handler
  /\ rPc' = "handler"
  /\ UNCHANGED rReplies
  /\ IF handler = "schedule_followup" THEN HandlerInvoke("schedule", hasName)
     ELSE IF handler = "assign_followup" THEN HandlerInvoke("assign", hasName)
     ELSE UNCHANGED <<handlerVars, storeVars>>

\* A message passes the listener's filters: the fast path invokes its handler
\* at once, or the text goes to the classifier.
RouterStart ==
  /\ rPc \in {"idle", "done"}
  /\ hPc \in {"idle", "done"}
  /\ rRuns < MaxMessages
  /\ rRuns' = rRuns + 1
  /\ rSnap' = [hRuns |-> hRuns, nextId |-> nextId, followUp |-> followUpOnBoard]
  /\ rRaw' = NoRaw
  /\ rIntent' = UnknownIntent
  /\ \E text \in MessageTexts :
       /\ rText' = text
       /\ IF FirstMatch(text) = "none"
            THEN /\ rPc' = "parsing"
                 /\ rHandler' = "none"
                 /\ rReplies' = <<>>
                 /\ UNCHANGED <<handlerVars, storeVars>>
            ELSE /\ rHandler' = FastPathHandler(FirstMatch(text))
                 /\ rPc' = "handler"
                 /\ rReplies' = <<>>
                 /\ UNCHANGED <<handlerVars, storeVars>>

\* parseIntent resolves; the router tests the confidence, then the missing
\* slots, then switches on the action.
ParseIntentReturn ==
  /\ rPc = "parsing"
  /\ \E outcome \in ClassifierOutcomes :
       /\ rRaw' = [kind |-> outcome.kind, fence |-> outcome.fence,
                   wellFormed |-> outcome.wellFormed, type |-> outcome.value.type]
       /\ rIntent' = ParseIntent(outcome)
  /\ IF LowConfidence(rIntent') THEN RouterSays("generic")
     ELSE IF MissingQuestion(rIntent') # "none"
       THEN RouterSays(MissingQuestion(rIntent'))
     ELSE IF rIntent'.action \in RoutedActions
       THEN RouterInvokes(rIntent'.action, rIntent'.hasName)
     ELSE RouterSays("generic")
  /\ UNCHANGED <<rRuns, rSnap, rText>>

\* The router's say() settles: done, or its rejection reaches the catch
\* block, which says the error reply.
RouterSayReturn ==
  /\ rPc = "saying"
  /\ \E ok \in BOOLEAN :
       rReplies' = IF ok THEN rReplies ELSE Append(rReplies, "error")
  /\ rPc' = "done"
  /\ UNCHANGED <<rRaw, rIntent, rHandler, rRuns, rSnap, rText, handlerVars,
                 storeVars>>

\* The handler the router awaits settles; a rejection reaches the catch
\* block.
RouterHandlerReturn ==
  /\ rPc = "handler"
  /\ IF rHandler \in {"schedule_followup", "assign_followup"}
       THEN /\ hPc = "done"
            /\ rReplies' = IF hReply = "threw" THEN Append(rReplies, "error")
                                               ELSE rReplies
       ELSE \E threw \in BOOLEAN :
              rReplies' = IF threw THEN Append(rReplies, "error") ELSE rReplies
  /\ rPc' = "done"
  /\ UNCHANGED <<rRaw, rIntent, rHandler, rRuns, rSnap, rText, handlerVars,
                 storeVars>>

RouterRest ==
  /\ rPc = "idle"
  /\ rRaw = NoRaw
  /\ rIntent = UnknownIntent
  /\ rHandler = "none"
  /\ rReplies = <<>>
  /\ rRuns = 0
  /\ rSnap = [hRuns |-> 0, nextId |-> 0, followUp |-> [id \in {11} |-> 0]]
  /\ rText = <<>>

\* The steps of a handler invocation leave the router's variables alone.
RouterNext ==
  \/ RouterStart /\ UNCHANGED OutsideRouter
  \/ ParseIntentReturn /\ UNCHANGED OutsideRouter
  \/ RouterSayReturn /\ UNCHANGED OutsideRouter
  \/ RouterHandlerReturn /\ UNCHANGED OutsideRouter
  \/ ResolveReturn /\ UNCHANGED OutsideHandler
  \/ AssigneeReturn /\ UNCHANGED OutsideHandler
  \/ MutateReturn /\ UNCHANGED OutsideHandler
  \/ UserInfoReturn /\ UNCHANGED OutsideHandler
  \/ AssignReturn /\ UNCHANGED OutsideHandler
  \/ NotifyReturn /\ UNCHANGED OutsideHandler

-----------------------------------------------------------------------------
(* slack/commands.js : stripNamePrefix, resolveInvestor;                    *)
(* utils/nameMatch.js : findBestMatch                                      *)

\* Scores are in hundredths: 0.35 is 35.  result.score > 0.35 is no match.
MatchThreshold == 35

\* findBestMatch's own test: topResult.score > 0.4.
FuseCutoff == 40

\* The candidate is not among the results of fuse.search.
Unmatched == -1

\* The scores fuse.search can give a candidate.
FuseScores == {Unmatched, 35, 36, 41}

\* Names are sequences of words.  The words stripNamePrefix removes, as the
\* regular expression spells them, and the lower-case form of a typed word.
Prepositions == {"with", "for", "to", "on", "about", "regarding"}

LowerWord(w) ==
  IF w = "With" THEN "with" ELSE IF w = "To" THEN "to"
  ELSE IF w = "For" THEN "for" ELSE w

\* stripNamePrefix(name): one leading preposition followed by white space is
\* removed, whatever its case; a preposition standing alone is kept.
StripNamePrefix(name) ==
  IF Len(name) > 1 /\ LowerWord(name[1]) \in Prepositions THEN Tail(name) ELSE name

\* The names the handlers pass to resolveInvestor.
BaseNames == { <<"wyatt">>, <<"To", "lam">> }

TypedPrepositions == {"with", "For"}

SearchNames == BaseNames \cup { <<p>> \o n : p \in TypedPrepositions, n \in BaseNames }

CleanNames == { StripNamePrefix(n) : n \in SearchNames }

\* The boards resolveInvestor meets, by the sizes of their pages.
ResolveBoards == { <<0>>, <<1>>, <<1, 1>> }

\* The indices of the results of fuse.search, best (lowest) score first; the
\* sort is stable.
FuseResults(scores) ==
  LET kept == {i \in DOMAIN scores : scores[i] # Unmatched}
      Before(i, j) == scores[i] < scores[j] \/ (scores[i] = scores[j] /\ i < j)
  IN [k \in 1..Cardinality(kept) |->
        CHOOSE i \in kept : Cardinality({j \in kept : Before(j, i)}) = k - 1]

\* Math.abs(r.score - topResult.score) < 0.1, in hundredths.
AlternativeGap == 10

\* The error of resolveInvestor names investors.slice(0, 5).
ListLimit == 5

\* closeAlternatives: the results after the first whose score is less than
\* 0.1 away from the top score, as indices of the investors.
CloseAlternatives(scores) ==
  LET results == FuseResults(scores)
      Gap(i) == IF scores[i] >= scores[results[1]]
                  THEN scores[i] - scores[results[1]]
                  ELSE scores[results[1]] - scores[i]
      Near(i) == Gap(i) < AlternativeGap
  IN IF Len(results) < 2 THEN <<>>
     ELSE SelectSeq(SubSeq(results, 2, Len(results)), Near)

NoMatch == [found |-> FALSE, index |-> 0, score |-> Unmatched, alternatives |-> <<>>]

\* investors.slice(0, 5): the first five investors in the order of the board.
FirstListed(investors) ==
  SubSeq(investors, 1, IF Len(investors) < ListLimit THEN Len(investors) ELSE ListLimit)

\* findBestMatch(searchName, investors) with the scores fuse.search gave the
\* investors: null, or the top result.
FindBestMatch(investors, scores) ==
  LET results == FuseResults(scores)
  IN IF Len(investors) = 0 \/ Len(results) = 0 THEN NoMatch
     ELSE IF scores[results[1]] > FuseCutoff THEN NoMatch
     ELSE [found |-> TRUE, index |-> results[1], score |-> scores[results[1]],
           alternatives |-> CloseAlternatives(scores)]

\* The score test of resolveInvestor with findBestMatch's cut-off in its place.
TooFar_FuseCutoff(score) == score > FuseCutoff

\* result.score > 0.35
TooFar(score) == score > MatchThreshold

\* What resolveInvestor returns once getActiveInvestors has resolved with
\* investors: the kind of error, or the record.  getActiveInvestors never
\* rejects, so the catch block with the "could not reach" error never runs.
\* listed holds the investors the returned value names besides the record:
\* the "Did you mean one of these?" list of the error, nothing otherwise
\* (result.alternatives is not read).
ResolveInvestorResult(investors, scores) ==
  LET result == FindBestMatch(investors, scores)
  IN IF Len(investors) = 0
       THEN [kind |-> "none active", investor |-> NoInvestor, score |-> Unmatched,
             listed |-> <<>>]
     ELSE IF ~result.found
       THEN [kind |-> "no match", investor |-> NoInvestor, score |-> Unmatched,
             listed |-> <<>>]
     ELSE IF TooFar(result.score)
       THEN [kind |-> "not close", investor |-> NoInvestor, score |-> result.score,
             listed |-> FirstListed(investors)]
     ELSE [kind |-> "record", investor |-> investors[result.index],
           score |-> result.score, listed |-> <<>>]

\* resolveInvestor(searchName) is called: the name is stripped and the call
\* suspends on getActiveInvestors.
ResolveInvestorCall ==
  /\ vPc \in {"idle", "done"}
  /\ Len(vCalls) < MaxResolves
  /\ \E name \in SearchNames : vSearch' = name
  /\ vPc' = "fetch"
  /\ UNCHANGED <<vCalls, fuseMemo>>

\* getActiveInvestors resolves, with the active items or with [] when the
\* fetch failed; fuse.search scores the candidates (the same name over the
\* same candidates gets the same scores again); the result is returned.
ResolveInvestorReturn ==
  /\ vPc = "fetch"
  /\ \E outcome \in {"returned", "thrown"} :
       LET investors == GetActiveInvestorsResult(outcome, Flatten(board))
           cleanName == StripNamePrefix(vSearch)
       IN /\ \E scores \in [DOMAIN investors -> FuseScores] :
               /\ Len(fuseMemo[cleanName]) = Len(investors)
                    => scores = fuseMemo[cleanName]
               /\ fuseMemo' = IF Len(investors) = 0 THEN fuseMemo
                              ELSE [fuseMemo EXCEPT ![cleanName] = scores]
               /\ vCalls' = Append(vCalls,
                    [search |-> vSearch, fetch |-> outcome, scores |-> scores,
                     candidates |-> investors,
                     result |-> ResolveInvestorResult(investors, scores)])
  /\ vPc' = "done"
  /\ UNCHANGED vSearch

ResolveRest ==
  /\ vPc = "idle"
  /\ vSearch = <<>>
  /\ vCalls = <<>>
  /\ fuseMemo = [n \in CleanNames |-> <<>>]

ResolveNext ==
  \/ ResolveInvestorCall /\ UNCHANGED OutsideResolve
  \/ ResolveInvestorReturn /\ UNCHANGED OutsideResolve

-----------------------------------------------------------------------------
(* slack/commands.js : handleLogTouchpoint; monday/mutations.js;           *)
(* config.js : cadence                                                     *)

\* config.cadence[status].autoNextDays for the statuses that have a tier.
Cadence == [s \in {"Hot Lead", "Warm Prospect"} |-> IF s = "Hot Lead" THEN 1 ELSE 5]

\* The red circle that marks a name as going cold, as one character.
Flag == "FLAG"

\* currentName.startsWith(FLAG)
StartsWithFlag(name) == Len(name) > 0 /\ name[1] = Flag

RECURSIVE DropSpaces(_)
DropSpaces(name) ==
  IF Len(name) > 0 /\ name[1] = " " THEN DropSpaces(Tail(name)) ELSE name

\* currentName.replace(/^FLAG\s*/u, '')
WithoutFlag(name) == IF StartsWithFlag(name) THEN DropSpaces(Tail(name)) ELSE name

\* The records resolveInvestor can hand to handleLogTouchpoint.
TouchInvestors ==
  { [id |-> 11, name |-> n, status |-> s] :
      n \in { <<"A", "b">>, <<Flag, " ", "A", "b">> },
      s \in {"Hot Lead", "Warm Prospect", "Passed / Inactive"} }

NoDate == -1

\* updateLastContactDate: mondayApi's data, or null when mondayApi threw.
UpdateLastContactDateResult(outcome) == IF outcome = "thrown" THEN Null ELSE "data"

\* How the handler goes on after the next-follow-up step.
AfterNextFollowUp ==
  IF StartsWithFlag(tInvestor.name) THEN tPc' = "flag" ELSE tPc' = "log"

\* handleLogTouchpoint up to the await of updateLastContactDate: the name is
\* there and resolveInvestor returned the record, or the handler replies
\* and returns.  today is read before the first mutation.
LogTouchpointStart ==
  /\ tPc \in {"idle", "done"}
  /\ tRuns < MaxTouchRuns
  /\ tRuns' = tRuns + 1
  /\ tNextDateStr' = NoDate
  /\ \E resolved \in BOOLEAN, inv \in TouchInvestors :
       IF resolved
         THEN /\ tInvestor' = inv
              /\ tTodayStr' = day
              /\ tPc' = "contact"
              /\ tReply' = "none"
              /\ nameOnBoard' = inv.name
              /\ lastContactOnBoard' = NoDate
              /\ nextFollowUpOnBoard' = NoDate
         ELSE /\ tPc' = "done"
              /\ tReply' = "error"
              /\ UNCHANGED <<tInvestor, tTodayStr, nameOnBoard, lastContactOnBoard,
                             nextFollowUpOnBoard>>
  /\ UNCHANGED day

\* updateLastContactDate resolves: null ends the handler with an apology;
\* otherwise the tier of the status is looked up and, when there is one, the
\* next date is computed from a second new Date() and updateNextFollowUp is
\* awaited.
ContactReturn ==
  /\ tPc = "contact"
  /\ \E outcome \in {"returned", "thrown"} :
       IF FollowUpFailed(UpdateLastContactDateResult(outcome))
         THEN /\ tPc' = "done"
              /\ tReply' = "could not update"
              /\ UNCHANGED <<tNextDateStr, lastContactOnBoard>>
         ELSE /\ lastContactOnBoard' = tTodayStr
              /\ tReply' = "none"
              /\ IF tInvestor.status \in DOMAIN Cadence
                   THEN /\ tNextDateStr' = day + Cadence[tInvestor.status]
                        /\ tPc' = "next"
                   ELSE /\ UNCHANGED tNextDateStr
                        /\ AfterNextFollowUp
  /\ UNCHANGED <<tInvestor, tTodayStr, tRuns, day, nameOnBoard, nextFollowUpOnBoard>>

\* updateNextFollowUp resolves; its result is not looked at.
NextFollowUpReturn ==
  /\ tPc = "next"
  /\ \E outcome \in {"returned", "thrown"} :
       nextFollowUpOnBoard' =
         IF outcome = "returned" THEN tNextDateStr ELSE nextFollowUpOnBoard
  /\ AfterNextFollowUp
  /\ UNCHANGED <<tInvestor, tTodayStr, tNextDateStr, tReply, tRuns, day,
                 nameOnBoard, lastContactOnBoard>>

\* removeGoingColdFlag resolves; its result is not looked at.
FlagReturn ==
  /\ tPc = "flag"
  /\ \E outcome \in {"returned", "thrown"} :
       nameOnBoard' =
         IF outcome = "returned" THEN WithoutFlag(tInvestor.name) ELSE nameOnBoard
  /\ tPc' = "log"
  /\ UNCHANGED <<tInvestor, tTodayStr, tNextDateStr, tReply, tRuns, day,
                 lastContactOnBoard, nextFollowUpOnBoard>>

\* createFollowUpActivity and logCommunication settle (their failures are
\* caught) and the confirmation is said.
ConfirmTouchpoint ==
  /\ tPc = "log"
  /\ tPc' = "done"
  /\ tReply' = "confirmed"
  /\ UNCHANGED <<tInvestor, tTodayStr, tNextDateStr, tRuns, day, nameOnBoard,
                 lastContactOnBoard, nextFollowUpOnBoard>>

\* Midnight passes.
DayPasses ==
  /\ day < MaxMidnights
  /\ day' = day + 1
  /\ UNCHANGED <<tPc, tInvestor, tTodayStr, tNextDateStr, tReply, tRuns,
                 nameOnBoard, lastContactOnBoard, nextFollowUpOnBoard>>

TouchRest ==
  /\ tPc = "idle"
  /\ tInvestor = NoInvestor
  /\ tTodayStr = NoDate
  /\ tNextDateStr = NoDate
  /\ tReply = "none"
  /\ tRuns = 0
  /\ day = 0
  /\ nameOnBoard = <<>>
  /\ lastContactOnBoard = NoDate
  /\ nextFollowUpOnBoard = NoDate

TouchNext ==
  \/ LogTouchpointStart /\ UNCHANGED OutsideTouch
  \/ ContactReturn /\ UNCHANGED OutsideTouch
  \/ NextFollowUpReturn /\ UNCHANGED OutsideTouch
  \/ FlagReturn /\ UNCHANGED OutsideTouch
  \/ ConfirmTouchpoint /\ UNCHANGED OutsideTouch
  \/ DayPasses /\ UNCHANGED OutsideTouch

-----------------------------------------------------------------------------
(* slack/notifications.js : notifyAssignment                               *)

\* What conversations.open can settle with.
OpenResults == {"channel with id", "channel without id", "no channel", "rejected"}

\* openResult.channel && openResult.channel.id
HasDmChannel(openResult) == openResult = "channel with id"

NotifyResult(dmSent, channelFallback) ==
  [returned |-> TRUE, dmSent |-> dmSent, channelFallback |-> channelFallback]

\* The call has not returned.
NoNotifyResult == [returned |-> FALSE, dmSent |-> FALSE, channelFallback |-> FALSE]

\* The fallback's test with the channel id not looked at.
FallbackWanted_Always(channelId) == TRUE

\* if (channelId)
FallbackWanted(channelId) == channelId # Null

\* The code after the DM's try/catch: the mention is posted when a channel id
\* is known, and otherwise both flags are returned false.
Fallback ==
  IF FallbackWanted(nChannelId)
    THEN /\ nPc' = "mention"
         /\ nLog' = Append(nLog, "mention")
         /\ UNCHANGED nResults
    ELSE /\ nPc' = "done"
         /\ nResults' = Append(nResults, NotifyResult(FALSE, FALSE))
         /\ UNCHANGED nLog

\* notifyAssignment is called, with or without a channel id, and suspends on
\* conversations.open.
NotifyAssignmentCall ==
  /\ nPc \in {"idle", "done"}
  /\ Len(nResults) < MaxNotifies
  /\ \E channelId \in {Null, "C1"} : nChannelId' = channelId
  /\ nPc' = "open"
  /\ nLog' = <<"open">>
  /\ nDmFailed' = FALSE
  /\ UNCHANGED nResults

\* conversations.open settles: with a channel id the DM is posted; a
\* rejection is caught; without a channel the try block just ends.
OpenReturn ==
  /\ nPc = "open"
  /\ \E openResult \in OpenResults :
       IF HasDmChannel(openResult)
         THEN /\ nPc' = "dm"
              /\ nLog' = Append(nLog, "dm")
              /\ UNCHANGED <<nResults, nDmFailed>>
         ELSE /\ nDmFailed' = TRUE
              /\ Fallback
  /\ UNCHANGED nChannelId

\* chat.postMessage to the DM channel settles: sent, or the rejection is
\* caught and the fallback runs.
DmPostReturn ==
  /\ nPc = "dm"
  /\ \E ok \in BOOLEAN :
       IF ok
         THEN /\ nPc' = "done"
              /\ nResults' = Append(nResults, NotifyResult(TRUE, FALSE))
              /\ UNCHANGED <<nLog, nDmFailed>>
         ELSE /\ nDmFailed' = TRUE
              /\ Fallback
  /\ UNCHANGED nChannelId

\* chat.postMessage to the channel settles: sent, or the rejection is caught.
MentionPostReturn ==
  /\ nPc = "mention"
  /\ \E ok \in BOOLEAN : nResults' = Append(nResults, NotifyResult(FALSE, ok))
  /\ nPc' = "done"
  /\ UNCHANGED <<nChannelId, nLog, nDmFailed>>

NotifyRest ==
  /\ nPc = "idle"
  /\ nChannelId = Null
  /\ nLog = <<>>
  /\ nDmFailed = FALSE
  /\ nResults = <<>>

NotifyNext ==
  \/ NotifyAssignmentCall /\ UNCHANGED OutsideNotify
  \/ OpenReturn /\ UNCHANGED OutsideNotify
  \/ DmPostReturn /\ UNCHANGED OutsideNotify
  \/ MentionPostReturn /\ UNCHANGED OutsideNotify

-----------------------------------------------------------------------------
(* utils/userMapping.js : findMondayUser                                   *)

RECURSIVE DropTrailingSpaces(_)
DropTrailingSpaces(str) ==
  IF Len(str) > 0 /\ str[Len(str)] = " "
    THEN DropTrailingSpaces(SubSeq(str, 1, Len(str) - 1)) ELSE str

\* String.prototype.trim
Trim(str) == DropTrailingSpaces(DropSpaces(str))

\* str.split(/\s+/)[0]: the characters before the first white space.
FirstWord(str) ==
  IF \E i \in DOMAIN str : str[i] = " "
    THEN SubSeq(str, 1, (CHOOSE i \in DOMAIN str :
                           str[i] = " " /\ \A j \in 1..(i - 1) : str[j] # " ") - 1)
    ELSE str

\* name.toLowerCase().trim() and its first word.
NameKey(name) == Trim(ToLowerCase(name))

FirstNameKey(name) == FirstWord(NameKey(name))

NoUser == [id |-> 0, name |-> <<>>, email |-> <<>>]

\* The users of the account: names and emails in either case, an email or a
\* name may be missing.
UserPool ==
  { [id |-> 1, name |-> <<"A", " ", "b">>, email |-> <<"A">>],
    [id |-> 2, name |-> <<"a", " ", "c">>, email |-> <<>>],
    [id |-> 3, name |-> <<"B">>, email |-> <<"b">>],
    [id |-> 4, name |-> <<>>, email |-> <<"c">>] }

UserLists ==
  UNION { {us \in [1..n -> UserPool] : \A i, j \in 1..n : i # j => us[i] # us[j]} :
            n \in 0..MaxUsers }

\* The names and emails findMondayUser is called with.
SearchedNames == { <<>>, <<"a">>, <<" ", "A", " ", "B">>, <<"a", " ", "d">>, <<"b">> }

SearchedEmails == { <<>>, <<"a">>, <<"B">> }

\* The indices of the users satisfying each step's test.
EmailMatches(users, email) ==
  {i \in DOMAIN users :
     users[i].email # <<>> /\ ToLowerCase(users[i].email) = ToLowerCase(email)}

NameMatches(users, name) ==
  {i \in DOMAIN users : users[i].name # <<>> /\ NameKey(users[i].name) = NameKey(name)}

FirstNameMatches(users, name) ==
  {i \in DOMAIN users :
     users[i].name # <<>> /\ FirstNameKey(users[i].name) = FirstNameKey(name)}

\* Array.prototype.find over a set of matching indices.
FirstOf(matches) == CHOOSE i \in matches : \A j \in matches : i <= j

\* The first-name test accepting the first of several.
UniqueFirstName_AtLeastOne(matches) == Cardinality(matches) >= 1

\* firstNameMatches.length === 1
UniqueFirstName(matches) == Cardinality(matches) = 1

\* findMondayUser(name, email) over the users getMondayUsers gave.
FindMondayUser(users, name, email) ==
  IF email # <<>> /\ EmailMatches(users, email) # {}
    THEN [step |-> "email", user |-> users[FirstOf(EmailMatches(users, email))]]
  ELSE IF name # <<>> /\ NameMatches(users, name) # {}
    THEN [step |-> "name", user |-> users[FirstOf(NameMatches(users, name))]]
  ELSE IF name # <<>> /\ UniqueFirstName(FirstNameMatches(users, name))
    THEN [step |-> "first name", user |-> users[FirstOf(FirstNameMatches(users, name))]]
  ELSE [step |-> "none", user |-> NoUser]

\* findMondayUser is called and returns.
FindMondayUserCall ==
  /\ \E name \in SearchedNames, email \in SearchedEmails :
       /\ pName' = name
       /\ pEmail' = email
       /\ pMatch' = [users |-> pUsers] @@ FindMondayUser(pUsers, name, email)
  /\ UNCHANGED pUsers

\* The account's users change (getMondayUsers refetches them hourly).
MondayUsersChange ==
  /\ \E users \in UserLists : users # pUsers /\ pUsers' = users
  /\ UNCHANGED <<pName, pEmail, pMatch>>

PersonRest ==
  /\ pUsers = <<>>
  /\ pName = <<>>
  /\ pEmail = <<>>
  /\ pMatch = [users |-> <<>>, step |-> "none", user |-> NoUser]

PersonNext ==
  \/ FindMondayUserCall /\ UNCHANGED OutsidePerson
  \/ MondayUsersChange /\ UNCHANGED OutsidePerson

-----------------------------------------------------------------------------
(* utils/userMapping.js : resolveSlackUserToMonday and its cache           *)

CACHE_TTL_MS == 3600000

\* The clock moves in half hours.
CacheClockStep == 1800000

SlackUserIds == {"U1", "U2"}

\* cache.get(id) is undefined.
NotCached == [present |-> FALSE, mondayPersonId |-> Null, cachedAt |-> 0]

\* cached && Date.now() - cached.cachedAt < CACHE_TTL_MS
CacheHit(cached, t) == cached.present /\ t - cached.cachedAt < CACHE_TTL_MS

Lookup(user, start, remote, failed) ==
  [user |-> user, start |-> start, end |-> cClock, remote |-> remote,
   failed |-> failed]

\* resolveSlackUserToMonday(client, id) is called: a cached mapping young
\* enough is returned at once, otherwise users.info is awaited.
LookupCall ==
  /\ cPc \in {"idle", "done"}
  /\ Len(cLookups) < MaxLookups
  /\ \E user \in SlackUserIds :
       /\ cUser' = user
       /\ IF CacheHit(cache[user], cClock)
            THEN /\ cPc' = "done"
                 /\ cLookups' = Append(cLookups, Lookup(user, cClock, FALSE, FALSE))
            ELSE /\ cPc' = "info"
                 /\ cLookups' = Append(cLookups,
                      [user |-> user, start |-> cClock, end |-> -1,
                       remote |-> TRUE, failed |-> FALSE])
  /\ UNCHANGED <<cClock, cache>>

\* users.info and findMondayUser settle: the mapping, with or without a board
\* person, is cached with the time of that moment and returned; when users.info
\* rejected, a mapping without a board person is returned and nothing cached.
LookupReturn ==
  /\ cPc = "info"
  /\ \E outcome \in {"returned", "thrown"}, person \in {Null, "p1"} :
       /\ cache' = IF outcome = "returned"
                     THEN [cache EXCEPT ![cUser] =
                             [present |-> TRUE, mondayPersonId |-> person,
                              cachedAt |-> cClock]]
                     ELSE cache
       /\ cLookups' = [cLookups EXCEPT ![Len(cLookups)] =
                         Lookup(cUser, @.start, TRUE, outcome = "thrown")]
  /\ cPc' = "done"
  /\ UNCHANGED <<cClock, cUser>>

\* Half an hour passes.
CacheClockAdvances ==
  /\ cClock < MaxCacheSteps * CacheClockStep
  /\ cClock' = cClock + CacheClockStep
  /\ UNCHANGED <<cache, cPc, cUser, cLookups>>

CacheRest ==
  /\ cClock = 0
  /\ cache = [u \in SlackUserIds |-> NotCached]
  /\ cPc = "idle"
  /\ cUser = "U1"
  /\ cLookups = <<>>

CacheNext ==
  \/ LookupCall /\ UNCHANGED OutsideCache
  \/ LookupReturn /\ UNCHANGED OutsideCache
  \/ CacheClockAdvances /\ UNCHANGED OutsideCache

-----------------------------------------------------------------------------
(* slack/commands.js : handleListOverdue; slack/messages.js                *)

\* Times are in hours.  date.setHours(0, 0, 0, 0)
StartOfDay(t) == t - (t % 24)

\* The nextFollowUp of an investor: null, or a time of yesterday, of today
\* (at midnight and during the day) or of tomorrow, the handler running on
\* day 1.
FollowUpValues == {NoDate, 23, 24, 33, 48}

OverdueNows == {24, 34}

InvestorLists == UNION { [1..n -> FollowUpValues] : n \in 0..MaxListed }

\* The filter of handleListOverdue.
IsOverdue(nextFollowUp, t) ==
  nextFollowUp # NoDate /\ StartOfDay(nextFollowUp) < StartOfDay(t)

\* formatOverdueList: the "no overdue follow-ups" message, or the list.
FormatOverdueList(overdue) ==
  IF Len(overdue) = 0 THEN [kind |-> "no overdue", count |-> 0]
  ELSE [kind |-> "overdue list", count |-> Len(overdue)]

\* The message matches the overdue rule and handleListOverdue suspends on
\* getActiveInvestors.
ListOverdueCall ==
  /\ oPc \in {"idle", "done"}
  /\ oPc' = "fetch"
  /\ oReply' = [kind |-> "none", count |-> 0]
  /\ UNCHANGED <<oNow, oInvestors>>

\* getActiveInvestors resolves (with [] when the fetch failed): an empty list
\* is answered with "No active investors found", any other with the
\* formatted list of the overdue ones.
ListOverdueReturn ==
  /\ oPc = "fetch"
  /\ \E investors \in InvestorLists, t \in OverdueNows :
       /\ oInvestors' = investors
       /\ oNow' = t
       /\ oReply' =
            IF Len(investors) = 0 THEN [kind |-> "no active investors", count |-> 0]
            ELSE FormatOverdueList(
                   SelectSeq(investors, LAMBDA f : IsOverdue(f, t)))
  /\ oPc' = "done"

OverdueRest ==
  /\ oPc = "idle"
  /\ oNow = 0
  /\ oInvestors = <<>>
  /\ oReply = [kind |-> "none", count |-> 0]

OverdueNext ==
  \/ ListOverdueCall /\ UNCHANGED OutsideOverdue
  \/ ListOverdueReturn /\ UNCHANGED OutsideOverdue

-----------------------------------------------------------------------------
(* utils/dateParser.js : parseNaturalDate                                  *)

\* Times are hours since midnight UTC of day 0.  A host time zone is its
\* standard getTimezoneOffset in hours and whether it observes summer time.
HostZones ==
  { [name |-> "UTC", std |-> 0, dst |-> FALSE],
    [name |-> "America/New_York", std |-> 5, dst |-> TRUE],
    [name |-> "America/Chicago", std |-> 6, dst |-> TRUE],
    [name |-> "Asia/Tokyo", std |-> 0 - 9, dst |-> FALSE] }

\* date.getTimezoneOffset() / 60 on the host, for a date of the season.
TimezoneOffset(host, season) ==
  IF host.dst /\ season = "summer" THEN host.std - 1 ELSE host.std

\* No hour was stated in the expression.
NoHour == -1

\* The expressions: a calendar day of a season, with or without an hour.
DateInputs ==
  [day : 0..MaxDays, season : {"winter", "summer"}, hour : {NoHour, 0, 14, 23}]

\* parsed.start.date(): the stated hour, or noon when none is stated, of the
\* calendar day in the host's zone.
ChronoDate(host, input) ==
  input.day * 24 + (IF input.hour = NoHour THEN 12 ELSE input.hour)
    + TimezoneOffset(host, input.season)

\* date.setUTCHours(h, 0, 0, 0): hour h of the date's UTC calendar day.
SetUTCHours(t, h) == (t - (t % 24)) + h

\* const isDST = date.getTimezoneOffset() < stdOffset, stdOffset being the
\* larger of the host's January and July offsets.
IsDST(host, season) == TimezoneOffset(host, season) < host.std

\* isDST ? 5 : 6
CentralOffsetHours(host, season) == IF IsDST(host, season) THEN 5 ELSE 6

\* parseNaturalDate(expression) on the host, for an expression chrono parses.
ParseNaturalDate(host, input) ==
  LET date == ChronoDate(host, input)
      hasTime == input.hour # NoHour
  IN [called |-> TRUE,
      hasTime |-> hasTime,
      date |-> IF hasTime THEN date
               ELSE SetUTCHours(date, 9 + CentralOffsetHours(host, input.season))]

\* parseNaturalDate is called and returns.
ParseNaturalDateCall ==
  /\ \E input \in DateInputs :
       /\ dInput' = input
       /\ dParsed' = ParseNaturalDate(dHost, input)
  /\ UNCHANGED dHost

\* The process is started in another time zone.
HostChanges ==
  /\ \E host \in HostZones : host # dHost /\ dHost' = host
  /\ dInput' = [day |-> 0, season |-> "winter", hour |-> NoHour]
  /\ dParsed' = [called |-> FALSE, hasTime |-> FALSE, date |-> 0]

DateRest ==
  /\ dHost = [name |-> "UTC", std |-> 0, dst |-> FALSE]
  /\ dInput = [day |-> 0, season |-> "winter", hour |-> NoHour]
  /\ dParsed = [called |-> FALSE, hasTime |-> FALSE, date |-> 0]

DateNext ==
  \/ ParseNaturalDateCall /\ UNCHANGED OutsideDate
  \/ HostChanges /\ UNCHANGED OutsideDate

-----------------------------------------------------------------------------
(* slack/commands.js, ai/intentParser.js : the two classifier stages       *)

Classification(text, action, hasName) ==
  [text |-> text, action |-> action, hasName |-> hasName]

\* A text reaches the fast path: a matching rule gives the action at once
\* (the status-check and touchpoint rules with the captured name), and
\* otherwise the text is sent to the remote classifier.
ClassifyCall ==
  /\ kPc \in {"idle", "done"}
  /\ Len(kLog) < MaxClassified
  /\ \E text \in MessageTexts :
       /\ kText' = text
       /\ IF FirstMatch(text) = "none"
            THEN kPc' = "parsing" /\ UNCHANGED kLog
            ELSE /\ kPc' = "done"
                 /\ kLog' = Append(kLog,
                      Classification(text, FastPathHandler(FirstMatch(text)),
                                     FirstMatch(text) \in {"statusCheck", "touchpoint"}))

\* messages.create settles and parseIntent returns the intent: what the
\* model answered this time, or the unknown intent when the call failed.
ClassifyReturn ==
  /\ kPc = "parsing"
  /\ \E outcome \in ClassifierOutcomes :
       kLog' = Append(kLog,
         Classification(kText, ParseIntent(outcome).action,
                        ParseIntent(outcome).hasName))
  /\ kPc' = "done"
  /\ UNCHANGED kText

ClassifyRest ==
  /\ kPc = "idle"
  /\ kText = <<>>
  /\ kLog = <<>>

ClassifyNext ==
  \/ ClassifyCall /\ UNCHANGED OutsideClassify
  \/ ClassifyReturn /\ UNCHANGED OutsideClassify

-----------------------------------------------------------------------------
(* scheduler/cron.js : the 15-minute poller; scheduler/goingCold.js        *)

\* config.cadence[status].coldAfter for the statuses that have a tier.
ColdAfter == [s \in DOMAIN Cadence |-> IF s = "Hot Lead" THEN 4 ELSE 8]

\* The statuses of the record on the board: two with a tier, an unknown
\* label and a missing one.
CronStatuses == {"Hot Lead", "Unknown", ""}

\* The jobs' test with the tier not looked at.
HasTier_Always(status) == TRUE

\* const tier = config.cadence[investor.status]; if (tier)
HasTier(status) == status \in DOMAIN Cadence

\* tier.autoNextDays and tier.coldAfter
AutoNextDays(status) == IF status \in DOMAIN Cadence THEN Cadence[status] ELSE 0

ColdAfterDays(status) == IF status \in DOMAIN ColdAfter THEN ColdAfter[status] ELSE 0

\* The record as getActiveInvestors returns it.
FetchedRecord ==
  [status |-> gStatus, lastContact |-> gLastContact, flagged |-> gFlagged]

\* lastContactCache[investor.id] = lastContactStr, and the job's run ends.
PollerEnds(investor) ==
  /\ lastContactCache' = investor.lastContact
  /\ gPc' = "idle"

\* A poller tick: the record is fetched; when its last-contact date differs
\* from the cached one and its status has a tier, updateNextFollowUp is
\* awaited; otherwise only the cache is updated.
PollerStart ==
  /\ gPc = "idle"
  /\ gRecord' = FetchedRecord
  /\ IF /\ gLastContact # NoDate
        /\ gLastContact # lastContactCache
        /\ HasTier(gStatus)
       THEN /\ gPc' = "poll next"
            /\ UNCHANGED lastContactCache
       ELSE PollerEnds(FetchedRecord)
  /\ UNCHANGED <<gToday, gStatus, gLastContact, gNext, gFlagged, gDay>>

\* The poller's updateNextFollowUp settles (its result is not looked at);
\* a flagged name has the marker removed next.
PollerNextReturn ==
  /\ gPc = "poll next"
  /\ \E outcome \in {"returned", "thrown"} :
       gNext' = IF outcome = "returned"
                  THEN gRecord.lastContact + AutoNextDays(gRecord.status)
                  ELSE gNext
  /\ IF gRecord.flagged
       THEN gPc' = "poll flag" /\ UNCHANGED lastContactCache
       ELSE PollerEnds(gRecord)
  /\ UNCHANGED <<gRecord, gToday, gStatus, gLastContact, gFlagged, gDay>>

\* The poller's removeGoingColdFlag settles.
PollerFlagReturn ==
  /\ gPc = "poll flag"
  /\ \E outcome \in {"returned", "thrown"} :
       gFlagged' = IF outcome = "returned" THEN FALSE ELSE gFlagged
  /\ PollerEnds(gRecord)
  /\ UNCHANGED <<gRecord, gToday, gStatus, gLastContact, gNext, gDay>>

\* The going-cold check: the record is fetched; with a last-contact date, a
\* tier and coldAfter days or more since the contact, addGoingColdFlag is
\* awaited.
GoingColdStart ==
  /\ gPc = "idle"
  /\ gRecord' = FetchedRecord
  /\ gToday' = gDay
  /\ IF /\ gLastContact # NoDate
        /\ HasTier(gStatus)
        /\ gDay - gLastContact >= ColdAfterDays(gStatus)
       THEN gPc' = "cold flag"
       ELSE gPc' = "idle"
  /\ UNCHANGED <<gStatus, gLastContact, gNext, gFlagged, lastContactCache, gDay>>

\* addGoingColdFlag settles; updateNextFollowUp(investor.id, todayStr) is
\* awaited.
GoingColdFlagReturn ==
  /\ gPc = "cold flag"
  /\ \E outcome \in {"returned", "thrown"} :
       gFlagged' = IF outcome = "returned" THEN TRUE ELSE gFlagged
  /\ gPc' = "cold next"
  /\ UNCHANGED <<gRecord, gToday, gStatus, gLastContact, gNext, lastContactCache,
                 gDay>>

\* The check's updateNextFollowUp settles; the alert is posted.
GoingColdNextReturn ==
  /\ gPc = "cold next"
  /\ \E outcome \in {"returned", "thrown"} :
       gNext' = IF outcome = "returned" THEN gToday ELSE gNext
  /\ gPc' = "cold alert"
  /\ UNCHANGED <<gRecord, gToday, gStatus, gLastContact, gFlagged,
                 lastContactCache, gDay>>

\* chat.postMessage settles; a rejection ends the check, caught by the job.
GoingColdAlertReturn ==
  /\ gPc = "cold alert"
  /\ gPc' = "idle"
  /\ UNCHANGED <<gRecord, gToday, gStatus, gLastContact, gNext, gFlagged,
                 lastContactCache, gDay>>

\* The date a schedule or assign request asks for: later than any date the
\* jobs compute.
ExplicitDate == 9

\* updateNextFollowUp(investor.id, dateStr) of handleScheduleFollowUp or
\* handleAssignFollowUp lands on the board.
ScheduleRequestLands ==
  /\ gNext # ExplicitDate
  /\ gNext' = ExplicitDate
  /\ UNCHANGED <<gPc, gRecord, gToday, gStatus, gLastContact, gFlagged,
                 lastContactCache, gDay>>

\* Midnight passes.
CronDayPasses ==
  /\ gDay < MaxCronDays
  /\ gDay' = gDay + 1
  /\ UNCHANGED <<gPc, gRecord, gToday, gStatus, gLastContact, gNext, gFlagged,
                 lastContactCache>>

\* The record on the board when the process starts.
CronRecord(status, contact) ==
  /\ gStatus = status
  /\ gLastContact = contact

CronRest ==
  /\ gPc = "idle"
  /\ gRecord = [status |-> "", lastContact |-> NoDate, flagged |-> FALSE]
  /\ gToday = FirstCronDay
  /\ gNext = NoDate
  /\ gFlagged = FALSE
  /\ lastContactCache = NoDate
  /\ gDay = FirstCronDay

CronNext ==
  \/ PollerStart /\ UNCHANGED OutsideCron
  \/ PollerNextReturn /\ UNCHANGED OutsideCron
  \/ PollerFlagReturn /\ UNCHANGED OutsideCron
  \/ GoingColdStart /\ UNCHANGED OutsideCron
  \/ GoingColdFlagReturn /\ UNCHANGED OutsideCron
  \/ GoingColdNextReturn /\ UNCHANGED OutsideCron
  \/ GoingColdAlertReturn /\ UNCHANGED OutsideCron
  \/ ScheduleRequestLands /\ UNCHANGED OutsideCron
  \/ CronDayPasses /\ UNCHANGED OutsideCron

-----------------------------------------------------------------------------
(* The specifications.                                                     *)

Rest ==
  /\ BoardRest /\ StoreRest /\ CheckerRest /\ DedupRest /\ HandlerRest
  /\ RouterRest /\ ResolveRest /\ TouchRest /\ NotifyRest
  /\ PersonRest
  /\ CacheRest
  /\ OverdueRest
  /\ DateRest
  /\ ClassifyRest
  /\ CronRest
  /\ CronRecord("", NoDate)

\* A board of any shape, nothing called yet.
BoardInit == board \in {BoardPages(sizes) : sizes \in Boards} /\ Rest

\* The checker's board, nothing called yet.
Init == board = CheckerBoard /\ Rest

\* The checker is started by index.js with the channel id the channel lookup
\* found, or with null when it found none.
CheckerInit ==
  /\ board = CheckerBoard
  /\ BoardRest
  /\ StoreRest
  /\ now = 0
  /\ channelOk \in BOOLEAN
  /\ ticks = [t \in 1..MaxTicks |-> NoTick]
  /\ running = 0
  /\ dueCount = [id \in ReminderIds |-> 0]
  /\ sends = [id \in ReminderIds |-> FALSE]
  /\ removedAs = [id \in ReminderIds |-> "none"]
  /\ DedupRest
  /\ HandlerRest
  /\ RouterRest
  /\ ResolveRest
  /\ TouchRest
  /\ NotifyRest
  /\ PersonRest
  /\ CacheRest
  /\ OverdueRest
  /\ DateRest
  /\ ClassifyRest
  /\ CronRest
  /\ CronRecord("", NoDate)

\* A reminder of the file whose subject name is empty and whose item has
\* left the board.
StoredNameless == NewReminder(1, 99, <<>>, 1, Null)

\* The checker is started after loadReminders has read that reminder.
FallbackInit ==
  /\ board = CheckerBoard
  /\ BoardRest
  /\ reminders = <<StoredNameless>>
  /\ file = [exists |-> TRUE, text |-> JsonStringify(<<StoredNameless>>)]
  /\ lastSave = "none"
  /\ diskOk = TRUE
  /\ nextId = 1
  /\ now = 0
  /\ channelOk \in BOOLEAN
  /\ ticks = [t \in 1..MaxTicks |-> NoTick]
  /\ running = 0
  /\ dueCount = [id \in ReminderIds |-> 0]
  /\ sends = [id \in ReminderIds |-> FALSE]
  /\ removedAs = [id \in ReminderIds |-> "none"]
  /\ DedupRest
  /\ HandlerRest
  /\ RouterRest
  /\ ResolveRest
  /\ TouchRest
  /\ NotifyRest
  /\ PersonRest
  /\ CacheRest
  /\ OverdueRest
  /\ DateRest
  /\ ClassifyRest
  /\ CronRest
  /\ CronRecord("", NoDate)

SpecBoard == BoardInit /\ [][BoardNext]_vars

SpecStore == Init /\ [][StoreNext]_vars

SpecChecker == CheckerInit /\ [][CheckerNext]_vars

SpecFallback == FallbackInit /\ [][CheckerNext]_vars

SpecDedup == Init /\ [][DedupNext]_vars

SpecHandler == Init /\ [][HandlerNext]_vars

SpecRouter == Init /\ [][RouterNext]_vars

\* A board of one of the resolver's shapes, nothing called yet.
ResolveInit == board \in {BoardPages(sizes) : sizes \in ResolveBoards} /\ Rest

SpecResolve == ResolveInit /\ [][ResolveNext]_vars

SpecTouch == Init /\ [][TouchNext]_vars

SpecNotify == Init /\ [][NotifyNext]_vars

SpecPerson == Init /\ [][PersonNext]_vars

SpecCache == Init /\ [][CacheNext]_vars

SpecOverdue == Init /\ [][OverdueNext]_vars

SpecDate == Init /\ [][DateNext]_vars

SpecClassify == Init /\ [][ClassifyNext]_vars

\* The handler that logs a contact and the two scheduled jobs, interleaved.
CadenceNext ==
  \/ TouchNext
  \/ CronNext

\* A record of any status, contacted on day 0 or never; nothing called yet.
CadenceInit ==
  /\ board = CheckerBoard
  /\ BoardRest /\ StoreRest /\ CheckerRest /\ DedupRest /\ HandlerRest
  /\ RouterRest /\ ResolveRest /\ TouchRest /\ NotifyRest /\ PersonRest
  /\ CacheRest /\ OverdueRest /\ DateRest /\ ClassifyRest /\ CronRest
  /\ \E status \in CronStatuses, contact \in {NoDate, 0} :
       CronRecord(status, contact)

SpecCadence == CadenceInit /\ [][CadenceNext]_vars

-----------------------------------------------------------------------------
(* Properties of the monday.com client (SpecBoard).                        *)

\* A response that is a failure of the attempt, read off the response alone.
RespFailed(resp) ==
  resp.status # 200 \/ Len(resp.errors) > 0 \/ resp.error_message

\* A transient failure: HTTP 429, HTTP 5xx, or a GraphQL error with a
\* rate-limit signal (in its message or in its extensions code).
RespTransient(resp) ==
  \/ resp.status = 429
  \/ resp.status >= 500
  \/ /\ resp.status = 200
     /\ \E i \in DOMAIN resp.errors :
          resp.errors[i].msgRateLimit \/ resp.errors[i].code = "RATE_LIMIT"

ApiFinished == apiPc \in {"returned", "thrown"}

\* C4: a mondayApi call whose first attempt fails transiently (HTTP 429, HTTP
\* 5xx, GraphQL rate limit) waits 30 seconds once and makes exactly one more
\* attempt; if that one fails too the error is thrown; no call makes more
\* than two HTTP attempts.
C4_RetryOnce ==
  /\ Len(apiLog) <= 2
  /\ apiWaited \in {0, RetryDelay}
  /\ (Len(apiLog) >= 1 /\ RespTransient(apiLog[1])) =>
       /\ apiWaited = RetryDelay
       /\ Len(apiLog) = 1 => apiPc = "sleep" \/ (apiPc = "attempt" /\ retryCount = 1)
       /\ ApiFinished => Len(apiLog) = 2
       /\ (ApiFinished /\ RespFailed(apiLog[2])) => apiPc = "thrown"
       /\ (ApiFinished /\ ~RespFailed(apiLog[2])) => apiPc = "returned"

\* C4 witness: a call that failed transiently twice and threw.
C4_Witness ==
  /\ apiPc = "thrown" /\ Len(apiLog) = 2
  /\ RespTransient(apiLog[1]) /\ RespTransient(apiLog[2])
  /\ apiLog[1].status = 200

\* C5: a mondayApi call whose first attempt fails with a non-transient error
\* throws after exactly one HTTP attempt and without any wait.
C5_NoRetryOnPermanent ==
  (Len(apiLog) >= 1 /\ RespFailed(apiLog[1]) /\ ~RespTransient(apiLog[1])) =>
     /\ Len(apiLog) = 1
     /\ apiWaited = 0
     /\ apiPc = "thrown"

\* C5 witness: a call that met a GraphQL error without rate-limit signal.
C5_Witness ==
  /\ apiPc = "thrown" /\ Len(apiLog) = 1
  /\ apiLog[1].status = 200 /\ Len(apiLog[1].errors) > 0
  /\ ~RespTransient(apiLog[1])

\* C10: when fetchAllBoardItems returns, its result is the concatenation in
\* page order of the items of every page of the board, one request per page;
\* what it returns is never a strict prefix of the board's items.
C10_AllPages ==
  fetchPc = "returned" =>
     /\ allItems = Flatten(board)
     /\ fetchCalls = Len(board)
     /\ ~IsStrictPrefix(allItems, Flatten(board))

-----------------------------------------------------------------------------
(* Properties of the reminder checker (SpecChecker).                       *)

InProgress(t) == ticks[t].pc \notin {"unstarted", "done"}

\* The for loop of tick t has run past its last reminder: the tick ends.
TickEnds(t) == ticks[t].pc = "loop" /\ ticks[t].idx > Len(ticks[t].due)

InStore(id) == \E i \in DOMAIN reminders : reminders[i].id = id

\* What the board really holds for a reminder: its active item, or none.
ActiveRecordOf(reminder) == ResolveInvestor(ActiveOf(Flatten(board)), reminder)

\* C1: every due reminder is in the due-set of exactly one checker tick of the
\* run, never of two, and it is absent from the store when that tick ends.
C1_DueInExactlyOneTick ==
  /\ \A id \in ReminderIds : dueCount[id] <= 1
  /\ \A t \in DOMAIN ticks :
       TickEnds(t) => \A i \in DOMAIN ticks[t].due : ~InStore(ticks[t].due[i].id)

\* C2: no checker tick begins while the body of an earlier tick is still in
\* progress.
C2_TicksNeverOverlap ==
  Cardinality({t \in DOMAIN ticks : InProgress(t)}) <= 1

\* C6: a due reminder is removed as unresolvable only if no active record of
\* the board has its record id or matches its subject name.
C6_UnresolvableOnlyIfGone ==
  [][\A t \in DOMAIN ticks :
       (running' = t /\ ticks[t].pc \in {"loop"} /\ ticks'[t].idx = ticks[t].idx + 1
        /\ removedAs'[ticks[t].due[ticks[t].idx].id] = "unresolvable")
       => ActiveRecordOf(ticks[t].due[ticks[t].idx]) = NoInvestor]_vars

\* C7: a due reminder whose record is found is removed from the store only
\* after a notification send for it has been attempted.
C7_RemovedOnlyAfterSend ==
  \A id \in ReminderIds : removedAs[id] = "handled" => sends[id]

-----------------------------------------------------------------------------
(* Properties of the reminder store (SpecStore).                           *)

\* What loadReminders would put in memory if the process restarted now.
Restored == LoadReminders(<<>>, file)

\* C8: after every addReminder or removeReminder call the file's content
\* equals the in-memory list, so that loadReminders after a restart restores
\* exactly the reminders that were in the store.
C8_FileAlwaysEqualsMemory == Restored = reminders

-----------------------------------------------------------------------------
(* Properties of the message de-duplication (SpecDedup).                   *)

\* The event reached the dedup test, i.e. passed the bot / subtype and the
\* channel filters.
ReachedDedup(e) == events[e].checkedAt # NoEntry

Gap(a, b) == IF a >= b THEN a - b ELSE b - a

\* C3: of two events with the same message timestamp that both reach the
\* dedup test within the dedup window, at most one goes on to classification.
C3_AtMostOneProceeds ==
  \A e1, e2 \in DOMAIN events :
    (/\ e1 # e2
     /\ events[e1].ts = events[e2].ts
     /\ ReachedDedup(e1) /\ ReachedDedup(e2)
     /\ Gap(events[e1].checkedAt, events[e2].checkedAt) <= PruneAge)
    => ~(events[e1].pc = "classify" /\ events[e2].pc = "classify")

\* C3 witness: two events with one timestamp, both past the filters while the
\* other was still suspended, a pruning run in between; one was classified and
\* the other stopped as a duplicate.
C3_Witness ==
  \E e1, e2 \in DOMAIN events :
    /\ events[e1].ts = events[e2].ts
    /\ events[e1].pc = "classify" /\ events[e2].pc = "duplicate"
    /\ events[e2].checkedAt = events[e1].checkedAt + PruneAge

-----------------------------------------------------------------------------
(* Properties of the schedule and assign handlers (SpecHandler).           *)

\* C9: the schedule and assign handlers add a reminder only after the board's
\* next-follow-up mutation for that record has succeeded; when the mutation
\* failed the invocation adds none.
C9_ReminderOnlyAfterMutation ==
  nextId > hStartId =>
    /\ hResult # Null
    /\ followUpOnBoard[hInvestor.id] = hDate
    /\ reminders[Len(reminders)].itemId = hInvestor.id

\* C9 witness: a second invocation, of the assign handler, has added its
\* reminder after its mutation went through.
C9_Witness ==
  /\ hKind = "assign" /\ hPc = "done" /\ hRuns = 2
  /\ nextId > hStartId /\ hResult # Null

-----------------------------------------------------------------------------
(* Properties of the router and of parseIntent (SpecRouter).               *)

CountOf(seq, x) == Cardinality({i \in DOMAIN seq : seq[i] = x})

\* parseIntent has returned for the message being routed.
Classified == rRaw.kind # "none"

\* Since the message arrived no handler was invoked, no reminder created and
\* no follow-up date written to the board.
Untouched ==
  /\ rHandler = "none"
  /\ hRuns = rSnap.hRuns
  /\ nextId = rSnap.nextId
  /\ followUpOnBoard = rSnap.followUp

ClarifyingQuestions == {"which investor", "which assignee", "which date"}

RequiredSlots == {"investorName", "assignee", "date"}

ListsSlot(intent, slot) ==
  \E i \in DOMAIN intent.missing_info : intent.missing_info[i] = slot

\* C11: when the classifier result has a confidence below 0.5 or the action
\* unknown, no handler is invoked, nothing is written to the board or the
\* reminder store, and the generic clarification reply is said exactly once.
C11_LowConfidenceOnlyClarifies ==
  (/\ Classified
   /\ \/ rIntent.confidence # NotNumber /\ rIntent.confidence < ConfidenceThreshold
      \/ rIntent.action = "unknown")
  => /\ Untouched
     /\ CountOf(rReplies, "generic") = 1

\* C11 witness: after a message that ran a handler, a second one classified
\* as a schedule request with confidence 0.3 got the generic reply.
C11_Witness ==
  /\ rPc = "done" /\ rRuns = 2 /\ rSnap.hRuns = 1
  /\ rIntent.action = "schedule_followup" /\ rIntent.confidence = 30
  /\ rReplies = <<"generic">>

\* C12: when the classifier result lists a missing required slot (subject
\* name, assignee or date), no handler is invoked for the message: the router
\* only asks a clarifying question.
C12_MissingSlotNoHandler ==
  (/\ Classified
   /\ \E slot \in RequiredSlots : ListsSlot(rIntent, slot))
  => /\ Untouched
     /\ Len(rReplies) >= 1
     /\ rReplies[1] \in ClarifyingQuestions \cup {"generic"}

\* C13: the clarifying question asked is the one for the highest-priority
\* missing slot, subject name before assignee before date, whatever the order
\* the classifier listed the slots in.
C13_AsksHighestPriority ==
  (/\ Classified
   /\ Len(rReplies) >= 1
   /\ rReplies[1] \in ClarifyingQuestions)
  => rReplies[1] =
       IF ListsSlot(rIntent, "investorName") THEN "which investor"
       ELSE IF ListsSlot(rIntent, "assignee") THEN "which assignee"
       ELSE "which date"

-----------------------------------------------------------------------------
(* Properties of resolveInvestor                                           *)

\* The score fuse.search gave the record a call returned.
ScoreOfReturned(call) ==
  LET at == {i \in DOMAIN call.candidates : call.candidates[i] = call.result.investor}
  IN {call.scores[i] : i \in at}

Close(score) == score # Unmatched /\ score <= MatchThreshold

\* C15: resolveInvestor returns a record only when fuse.search scored that
\* record at or below 0.35, and whenever no candidate is scored at or below
\* 0.35 the call returns an error that carries no record.
C15_RecordOnlyWithinThreshold ==
  \A c \in DOMAIN vCalls :
    LET call == vCalls[c]
    IN /\ call.result.kind = "record"
            => /\ Close(call.result.score)
               /\ call.result.score \in ScoreOfReturned(call)
       /\ (\A i \in DOMAIN call.candidates : ~Close(call.scores[i]))
            => /\ call.result.kind # "record"
               /\ call.result.investor = NoInvestor

\* A call returned a record scored exactly 0.35, and another call over two or
\* more candidates, the best of them scored 0.36, returned no record.
C15_Witness ==
  /\ \E c \in DOMAIN vCalls :
       vCalls[c].result.kind = "record" /\ vCalls[c].result.score = MatchThreshold
  /\ \E c \in DOMAIN vCalls :
       /\ Len(vCalls[c].candidates) > 1
       /\ vCalls[c].result.kind = "not close"
       /\ vCalls[c].result.score = MatchThreshold + 1

\* The outcome of a call: the record, or the kind of the error.
OutcomeOf(call) == <<call.result.kind, call.result.investor>>

\* C16: a call with the name "p N", p one of the six prepositions, has the
\* same outcome as a call with the name N over the same candidates.
C16_PrepositionIgnored ==
  \A c, d \in DOMAIN vCalls :
    (/\ \E p \in TypedPrepositions : vCalls[c].search = <<p>> \o vCalls[d].search
     /\ vCalls[c].candidates = vCalls[d].candidates)
      => OutcomeOf(vCalls[c]) = OutcomeOf(vCalls[d])

\* C17: a call whose fetch of the candidates failed returns the "could not
\* reach" error, not the error of an empty list of candidates.
C17_FetchFailureIsUnreachable ==
  \A c \in DOMAIN vCalls :
    vCalls[c].fetch = "thrown" => vCalls[c].result.kind = "unreachable"

-----------------------------------------------------------------------------
(* Properties of handleLogTouchpoint                                       *)

\* C18: when a log-contact request for a record whose status has a cadence
\* tier is confirmed, the board holds today as the last-contact date and
\* today + autoNextDays as the next-follow-up date, and the name on the board
\* carries no going-cold marker.
C18_ConfirmedMeansWritten ==
  (tReply = "confirmed" /\ tInvestor.status \in DOMAIN Cadence)
    => /\ lastContactOnBoard = tTodayStr
       /\ nextFollowUpOnBoard = tTodayStr + Cadence[tInvestor.status]
       /\ ~StartsWithFlag(nameOnBoard)

-----------------------------------------------------------------------------
(* Properties of handleAssignFollowUp's assignee note                      *)

\* The assign handler holds a mapping with no board person and the board has
\* taken the date.
UnlinkedAssignee ==
  /\ hKind = "assign"
  /\ hPc \notin {"idle", "resolve", "assignee", "mutate"}
  /\ hInvestor # NoInvestor
  /\ hAssignee.mondayPersonId = Null
  /\ hResult # Null

\* C19: in an assign request whose assignee has no board person, once the
\* date mutation has succeeded updateAssignedTo is never called, and the
\* final reply is the confirmation of the date with the note that the
\* assignee could not be found on the board.
C19_UnlinkedAssigneeIsReported ==
  UnlinkedAssignee
    => /\ ~hAssignTried
       /\ hPc # "assign"
       /\ hPc = "done" => (hReply = "done" /\ hNote = "not found")

\* An assign request for a person known to Slack but not to the board ended,
\* and so did one for a person known to neither.
C19_Witness ==
  /\ UnlinkedAssignee
  /\ hPc = "done"
  /\ hAssignee.slackUserId # Null
  /\ hNote = "not found"
  /\ followUpOnBoard[hInvestor.id] = hDate

-----------------------------------------------------------------------------
(* Properties of notifyAssignment                                          *)

Mentioned == \E i \in DOMAIN nLog : nLog[i] = "mention"

\* C20: the first call notifyAssignment makes is the one that opens the
\* direct message; the in-channel mention is attempted exactly when the
\* direct message failed (rejected, or no channel obtained) and a channel id
\* is known; every call returns a result, and no result has both dmSent and
\* channelFallback true.
C20_DmFirstThenMention ==
  /\ nPc # "idle" => nLog[1] = "open"
  /\ Mentioned <=> (nDmFailed /\ nChannelId # Null)
  /\ nPc = "done" => Len(nResults) > 0 /\ nResults[Len(nResults)].returned
  /\ \A i \in DOMAIN nResults :
       /\ nResults[i].returned
       /\ ~(nResults[i].dmSent /\ nResults[i].channelFallback)

\* One call returned after a rejected DM post and a delivered mention, and
\* another after a failed DM with no channel id known.
C20_Witness ==
  /\ nPc = "done"
  /\ \E i \in DOMAIN nResults : nResults[i].channelFallback
  /\ nLog = <<"open">> /\ nDmFailed /\ nChannelId = Null

-----------------------------------------------------------------------------
(* Properties of findMondayUser                                            *)

\* The users whose first name is the searched name's first word.
SharingFirstName ==
  {i \in DOMAIN pMatch.users :
     pMatch.users[i].name # <<>> /\ FirstNameKey(pMatch.users[i].name) = FirstNameKey(pName)}

\* No user has the searched email, and none the searched full name.
ExactStepsFailed ==
  /\ pEmail = <<>> \/ EmailMatches(pMatch.users, pEmail) = {}
  /\ pName = <<>> \/ NameMatches(pMatch.users, pName) = {}

\* C21: findMondayUser returns a user by first name only after the exact
\* email and the exact full name both matched no one, and then exactly when
\* one single user has that first name; with two or more sharing it, and
\* with none, the result is no match.
C21_FirstNameOnlyWhenUnique ==
  /\ pMatch.step = "first name"
       <=> (ExactStepsFailed /\ pName # <<>> /\ Cardinality(SharingFirstName) = 1)
  /\ pMatch.step = "first name" => pMatch.user = pMatch.users[FirstOf(SharingFirstName)]
  /\ (ExactStepsFailed /\ Cardinality(SharingFirstName) # 1) => pMatch.user = NoUser

\* Two users share the first name searched for, no exact step matches, and
\* the call returned no user.
C21_Witness ==
  /\ pName # <<>>
  /\ ExactStepsFailed
  /\ Cardinality(SharingFirstName) = 2
  /\ pMatch.user = NoUser

-----------------------------------------------------------------------------
(* Properties of the user mapping cache                                    *)

\* Lookup i made the remote calls and has returned.
CompletedRemote(i) == cLookups[i].remote /\ cLookups[i].end >= 0

\* C22: after a lookup for a user that went to Slack has returned, failed or
\* not, every later lookup for that user starting less than one hour after
\* it makes no remote call, and one starting more than an hour after the
\* last such lookup makes the remote calls again.
C22_LookupsCachedForAnHour ==
  \A i, j \in DOMAIN cLookups :
    (/\ i < j
     /\ cLookups[i].user = cLookups[j].user
     /\ CompletedRemote(i)
     /\ \A k \in (i + 1)..(j - 1) :
          cLookups[k].user = cLookups[i].user => ~cLookups[k].remote)
      => /\ cLookups[j].start - cLookups[i].end < CACHE_TTL_MS => ~cLookups[j].remote
         /\ cLookups[j].start - cLookups[i].end > CACHE_TTL_MS => cLookups[j].remote

-----------------------------------------------------------------------------
(* Properties of handleListOverdue                                         *)

\* C23: when "who's overdue" has been answered and no investor of the list
\* has a next-follow-up date before today, a list without investors
\* included, the answer is the "no overdue follow-ups" message.
C23_NoneOverdueIsCanonical ==
  (/\ oPc = "done"
   /\ \A i \in DOMAIN oInvestors :
        oInvestors[i] = NoDate \/ StartOfDay(oInvestors[i]) >= StartOfDay(oNow))
    => oReply.kind = "no overdue"

-----------------------------------------------------------------------------
(* Properties of parseNaturalDate                                          *)

\* The UTC offset of America/New_York in hours: 4 in summer, 5 in winter.
NewYorkOffset(season) == IF season = "summer" THEN 4 ELSE 5

\* C24: for an expression without an hour parseNaturalDate returns hasTime
\* false and 09:00 New York time of the parsed calendar day, whatever the
\* season and whatever the host's time zone.
C24_DefaultsToNineNewYork ==
  (dParsed.called /\ dInput.hour = NoHour)
    => /\ ~dParsed.hasTime
       /\ dParsed.date = dInput.day * 24 + 9 + NewYorkOffset(dInput.season)

-----------------------------------------------------------------------------
(* Properties of the fast path                                             *)

\* The fast-path rules in the order the spec gives: diagnostic, overdue,
\* status check, touchpoint.
RuleOrder == <<"testMonday", "overdue", "statusCheck", "touchpoint">>

MatchingRules(text) == {i \in DOMAIN RuleOrder : RuleMatches(RuleOrder[i], text)}

ClassifierCalled == rPc = "parsing" \/ Classified

\* C26: when the message matches a fast-path rule, the one handler that runs
\* is that of the first matching rule in the order diagnostic, overdue,
\* status check, touchpoint, and the classifier is not called; the classifier
\* is called only for a message no rule matches.
C26_FirstMatchWinsWithoutClassifier ==
  /\ (rRuns > 0 /\ MatchingRules(rText) # {})
       => /\ \A i \in MatchingRules(rText) :
               (\A j \in MatchingRules(rText) : i <= j)
                 => rHandler = FastPathHandler(RuleOrder[i])
          /\ ~ClassifierCalled
          /\ hRuns = rSnap.hRuns
  /\ ClassifierCalled => MatchingRules(rText) = {}

\* A message matching the status-check rule and the touchpoint rule was
\* handled by the status-check handler, the classifier not called.
C26_Witness ==
  /\ rPc = "done"
  /\ Cardinality(MatchingRules(rText)) = 2
  /\ RuleMatches("touchpoint", rText)
  /\ rHandler = "check_status"
  /\ ~ClassifierCalled

-----------------------------------------------------------------------------
(* Properties of the classification                                        *)

\* C25: two classifications of the same text give the same action tag and
\* the same slots.
C25_SameTextSameIntent ==
  \A i, j \in DOMAIN kLog :
    kLog[i].text = kLog[j].text
      => kLog[i].action = kLog[j].action /\ kLog[i].hasName = kLog[j].hasName

-----------------------------------------------------------------------------
(* Properties of the intent's confidence                                   *)

\* C27: the intent object parseIntent hands to the router has a confidence
\* between 0 and 1 (0 and 100 hundredths), whatever the classifier returned.
C27_ConfidenceInUnitInterval ==
  (Classified /\ rIntent.type = "object")
    => (rIntent.confidence >= 0 /\ rIntent.confidence <= 100)

-----------------------------------------------------------------------------
(* Properties of the cadence tiers                                         *)

\* C28: for a record whose status has no cadence tier, none of the
\* log-contact handler, the 15-minute poller and the going-cold check
\* changes the next-follow-up date: none of them is awaiting
\* updateNextFollowUp for such a record, and the date on the board is as it
\* was before they ran or as a schedule request set it.
C28_NoTierNoReschedule ==
  /\ (tInvestor # NoInvestor /\ tInvestor.status \notin DOMAIN Cadence)
       => (tPc # "next" /\ nextFollowUpOnBoard = NoDate)
  /\ gRecord.status \notin DOMAIN Cadence
       => gPc \notin {"poll next", "cold next"}
  /\ gStatus \notin DOMAIN Cadence => gNext \in {NoDate, ExplicitDate}

\* A contact was logged for a record without a tier and confirmed; another
\* record with an unknown status, contacted on day 0, has been looked at by
\* the poller (the contact is cached) and, four days after the contact, by
\* the going-cold check; both next-follow-up dates are untouched.
C28_Witness ==
  /\ tPc = "done"
  /\ tReply = "confirmed"
  /\ tInvestor.status \notin DOMAIN Cadence
  /\ lastContactOnBoard # NoDate
  /\ nextFollowUpOnBoard = NoDate
  /\ gStatus = "Unknown"
  /\ gLastContact = 0
  /\ lastContactCache = 0
  /\ gToday > FirstCronDay
  /\ gRecord.status = "Unknown"
  /\ gPc = "idle"
  /\ gNext = NoDate

-----------------------------------------------------------------------------
(* Properties of the names resolveInvestor offers (SpecResolve).           *)

\* The candidates of a call, closest first: the investors fuse.search
\* returned, in the order of their scores.
ClosestFirst(call) ==
  LET results == FuseResults(call.scores)
  IN [k \in 1..(IF Len(results) < ListLimit THEN Len(results) ELSE ListLimit) |->
        call.candidates[results[k]]]

\* C29: when there are candidates and the best score is above the threshold,
\* the names the failure reply lists are the closest candidates, best score
\* first.
C29_ListsClosestCandidates ==
  \A k \in DOMAIN vCalls :
    vCalls[k].result.kind = "not close"
      => vCalls[k].result.listed = ClosestFirst(vCalls[k])

\* The runners-up of a call whose score is within 0.1 of the top score.
RunnersUp(call) ==
  [k \in DOMAIN CloseAlternatives(call.scores) |->
     call.candidates[CloseAlternatives(call.scores)[k]]]

\* C30: when a record is accepted and a runner-up scored within 0.1 of it,
\* the returned value names the runners-up beside the accepted record.
C30_RunnersUpOffered ==
  \A k \in DOMAIN vCalls :
    (vCalls[k].result.kind = "record" /\ RunnersUp(vCalls[k]) # <<>>)
      => vCalls[k].result.listed = RunnersUp(vCalls[k])

-----------------------------------------------------------------------------
(* Properties of a tick's batch (SpecChecker).                             *)

\* Every reminder of the due-set of tick t has had its iteration: it was
\* removed as unresolvable, as handled, or by the catch block.
BatchProcessed(t) ==
  \A i \in DOMAIN ticks[t].due : removedAs[ticks[t].due[i].id] # "none"

\* C31: a tick with due reminders ends only when its for loop has run past
\* the last of them, whatever was thrown on the way: a rejected post removes
\* its reminder and hands on to the next one, and every reminder of the
\* due-set has had its iteration when the tick ends.
C31_FailureDoesNotStopBatch ==
  [][\A t \in DOMAIN ticks :
       /\ (ticks[t].pc = "post" /\ ticks'[t] # ticks[t])
            => /\ ticks'[t].pc = "loop"
               /\ ticks'[t].idx = ticks[t].idx + 1
               /\ ticks'[t].due = ticks[t].due
       /\ (ticks[t].pc \notin {"unstarted", "done"} /\ ticks'[t].pc = "done")
            => (TickEnds(t) /\ BatchProcessed(t))]_vars

\* The one tick so far had two due reminders: the post for the first was
\* rejected, the second was handled after it, and the tick has ended.
C31_Witness ==
  /\ now = 1
  /\ ticks[1].pc = "done"
  /\ removedAs[1] = "failed"
  /\ removedAs[2] = "handled"
  /\ sends[2]

\* C40: a tick awaits getActiveInvestors only straight after it read a
\* due-set that is not empty, never again later in the same run: at most one
\* fetch per tick however many reminders are due, and none when none is.
C40_OneFetchPerTick ==
  [][\A t \in DOMAIN ticks :
       /\ (ticks'[t].pc = "fetch" /\ ticks[t].pc # "fetch")
            => (ticks[t].pc = "unstarted" /\ ticks'[t].due # <<>>)
       /\ ticks'[t].pc = "unstarted" => ticks[t].pc = "unstarted"
       /\ (ticks[t].pc = "unstarted" /\ ticks'[t].pc # "unstarted"
           /\ ticks'[t].due = <<>>)
            => ticks'[t].pc = "done"]_vars

\* The first tick found nothing due and ended without a fetch; the second
\* fetched once for two due reminders and is at the second of them.
C40_Witness ==
  /\ now = 2
  /\ ticks[1].pc = "done"
  /\ \A i \in DOMAIN ticks[2].due : dueCount[ticks[2].due[i].id] = 1
  /\ Len(ticks[2].due) = 2
  /\ ticks[2].idx = 2
  /\ ticks[2].pc = "suggest"

\* The reminder the for loop of tick t is at.
Current(t) == ticks[t].due[ticks[t].idx]

\* Tick t is at a reminder with this id whose fire time was not later than
\* t, the time at which the tick read the due-set.
AtDue(t, id) ==
  /\ ticks[t].pc \in {"loop", "suggest", "email", "post"}
  /\ ticks[t].idx \in DOMAIN ticks[t].due
  /\ Current(t).id = id
  /\ Current(t).scheduledAt <= t

\* C38: a notification is sent for a reminder, and a reminder leaves the
\* store, only in a tick that is at that reminder and read the due-set no
\* earlier than its fire time; the removal leaves every other stored reminder
\* as it was, in the same order.
C38_OnlyDueTouched ==
  [][/\ \A id \in ReminderIds :
          (sends'[id] /\ ~sends[id]) => \E t \in DOMAIN ticks : AtDue(t, id)
     /\ Len(reminders') < Len(reminders)
          => \E t \in DOMAIN ticks :
               /\ AtDue(t, Current(t).id)
               /\ InStore(Current(t).id)
               /\ reminders' = SelectSeq(reminders, LAMBDA r : r.id # Current(t).id)
               /\ \A i \in DOMAIN reminders' :
                    \E j \in DOMAIN reminders : reminders'[i] = reminders[j]]_vars

\* The one tick so far has handled a due reminder and ended, and the
\* reminder that fires later is still in the store.
C38_Witness ==
  /\ now = 1
  /\ ticks[1].pc = "done"
  /\ \E id \in ReminderIds : removedAs[id] = "handled" /\ ~InStore(id)
  /\ \E i \in DOMAIN reminders : reminders[i].scheduledAt > now

-----------------------------------------------------------------------------
(* Properties of the pruning timer (SpecDedup).                            *)

\* The step is a run of the pruning timer.
PruneRuns == clock' # clock /\ clock' % PruneInterval = 0

\* C39: a run of the pruning timer deletes an entry exactly when it was
\* recorded more than five minutes before the run, and no entry leaves the
\* map in any other way.
C39_PruneRemovesExactlyTheOld ==
  [][\A ts \in MessageTs :
       processedMessages[ts] # NoEntry =>
         /\ PruneRuns => (processedMessages'[ts] = NoEntry
                            <=> clock' - processedMessages[ts] > PruneAge)
         /\ processedMessages'[ts] # processedMessages[ts]
              => (PruneRuns /\ processedMessages'[ts] = NoEntry
                  /\ clock' - processedMessages[ts] > PruneAge)]_vars

\* The second pruning run has just deleted the entry recorded seven and a
\* half minutes before it and kept the one recorded five minutes before it.
C39_Witness ==
  /\ clock = 2 * PruneInterval
  /\ \E e1, e2 \in DOMAIN events :
       /\ events[e1].ts = "ts1" /\ events[e1].pc = "classify"
       /\ events[e1].checkedAt = ClockStep
       /\ processedMessages["ts1"] = NoEntry
       /\ events[e2].ts = "ts2" /\ events[e2].pc = "classify"
       /\ events[e2].checkedAt = PruneInterval
       /\ processedMessages["ts2"] = PruneInterval

\* The file holds a reminder with this id.
InFile(id) == file.exists /\ \E i \in DOMAIN file.text : file.text[i].id = id

\* The ids of the due-set of tick t.
DueIds(t) == {ticks[t].due[i].id : i \in DOMAIN ticks[t].due}

-----------------------------------------------------------------------------
(* Properties of the name fallback (SpecFallback).                         *)

\* C35: a tick that goes on with an investor whose id is not the reminder's
\* record id found it by name: the reminder's subject name is not empty and
\* the investor's name contains it, case ignored.
C35_FallbackNeedsAName ==
  \A t \in DOMAIN ticks :
    (/\ ticks[t].pc \in {"suggest", "email", "post"}
     /\ ticks[t].investor.id # ticks[t].due[ticks[t].idx].itemId)
      => /\ ticks[t].due[ticks[t].idx].investorName # <<>>
         /\ Includes(ToLowerCase(ticks[t].investor.name),
                     ToLowerCase(ticks[t].due[ticks[t].idx].investorName))

-----------------------------------------------------------------------------
(* Properties of the schedule handler's confirmation and date (SpecHandler) *)

\* A reminder for the handler's record was added by this invocation and is in
\* the store.
ReminderAddedNow ==
  /\ nextId > hStartId
  /\ \E i \in DOMAIN reminders :
       reminders[i].id > hStartId /\ reminders[i].itemId = hInvestor.id

C37_ParsedDateReachesTheBoard ==
  (hPc = "done" /\ hInvestor # NoInvestor /\ hDate # 0) => hReply # "threw"

-----------------------------------------------------------------------------
(* Properties of the 15-minute poller (SpecCadence).                       *)

\* C32: the record's last-contact date is as it was before the process
\* started and nothing edits it, so the board holds at every poll what it
\* held at the poll before: the poller never awaits a next-follow-up
\* mutation or the removal of the going-cold marker for the record, the first
\* poll after the start included.
C32_PollerOnlyOnChange == gPc \notin {"poll next", "poll flag"}

====
